---- MODULE Spec2Model ----
(***************************************************************************)
(* Model of the agent-manager backend: the orchestrator (planner, plan to  *)
(* graph builder, graph executor, SSE event stream of POST                 *)
(* /api/orchestrate) and the bridge manager with its per-conversation      *)
(* sidecar sessions.                                                       *)
(*                                                                         *)
(* Two specifications share the module:                                    *)
(*   Spec        one POST /api/orchestrate request, from the opening of    *)
(*               the stream to its [DONE] frame;                           *)
(*   SpecBridge  callers of BridgeManager::get_or_create_session and       *)
(*               BridgeSession::send_message running concurrently.         *)
(***************************************************************************)
EXTENDS Integers, Sequences, FiniteSets, TLC

\* ------------------------------------------------------------------ bounds

\* Largest number of steps of a plan the planner returns.
MaxSteps == 3

\* Largest value of OrchestratorConfig.max_parallel_tasks explored (values
\* are > 0, as validate_and_apply_config_update requires).
MaxParallel == 2

\* Number of concurrent callers of the bridge manager.
NumCallers == 2

\* Total number of BridgeManager::send_message calls made, over all callers.
MaxCalls == 3

\* Largest number of steps of a plan a caller passes to execute_plan directly.
MaxInputSteps == 2

\* Largest integer a config update supplies for a field.
MaxConfigValue == 2

VARIABLES
    \* ---- POST /api/orchestrate (api/orchestrator.rs) ----
    pc,                 \* position of the stream! block of orchestrate
    attempts,           \* calls of try_plan_once made by internal_run_planner
    plannerCalls,       \* HTTP calls to the LLM made by the planner
    plannerError,       \* the Err the last try_plan_once returned (NoError: none)
    plan,               \* the Plan the planner returned (<<>> before)
    idx,                \* loop index of the step_start / result loops
    frames,             \* frames yielded on the SSE stream, in order
    \* ---- execute_plan (orchestrator/graph_executor.rs) ----
    max_parallel_tasks, \* config.max_parallel_tasks
    plan_timeout_secs,  \* config.plan_timeout_secs
    xstate,             \* position of execute_plan_inner's run loop
    current_task_id,    \* session.current_task_id (0: no session yet)
    context,            \* step ids whose "<id>.output" key is in the Context
    setCalls,           \* history: every context.set, as <<task, key>>
    taskState,          \* per step: state of its Task::run
    startLog,           \* history: every Task::run started, with the context then
    result,             \* what execute_plan returned ("none": not yet)
    results,            \* the Vec<StepResult> of an Ok return
    error,              \* what the Err of execute_plan carries (NoError: none)
    fileWrites,         \* history: every file internal_create_file wrote
    \* ---- BridgeManager / BridgeSession (chat/bridge_*.rs) ----
    sessions,           \* the manager's table: conversation -> session (0: none)
    spawned,            \* BridgeSession objects constructed so far
    sconv,              \* per session: its conversation_id
    proc,               \* per session: state of its sidecar subprocess
    stdinPipe,          \* per session: request lines written, not yet read by the sidecar
    stdoutPipe,         \* per session: response lines written by the sidecar, not yet read
    stdoutLock,         \* per session: the caller holding the stdout mutex (0: free)
    calls,              \* send_message calls begun so far
    cpc,                \* per caller: position in send_message / get_or_create_session
    cconv,              \* per caller: conversation_id of its call
    csess,              \* per caller: the Arc<BridgeSession> it holds (0: none)
    creq,               \* per caller: the request of its call (its call number)
    creply,             \* per caller: the request its last response line answers
    \* ---- BridgeManager::kill_all_processes ----
    kaPc,               \* position of kill_all_processes
    kaKeys,             \* conversation_ids collected and not yet visited
    kaTable,            \* history: the table when kill_all_processes took the lock
    kaCur,              \* the session kill_all_processes is killing (0: none)
    killLog,            \* history: every session.kill() of kill_all_processes
    \* ---- HTTP handlers' input validation (api/orchestrator.rs) ----
    httpRequest,        \* the request a handler was called with
    httpResponse,       \* what the handler returned (NoResponse: not yet)
    \* ---- the locks of BridgeManager and BridgeSession ----
    tableLock,          \* sessions RwLock: callers holding it for read, the writer (0: none)
    mutex,              \* per session, per Mutex (child, stdin, stdout, stderr): its holder (0: free)
    child,              \* per session: whether the child handle is still in its Mutex<Option<Child>>
    cop,                \* per caller: the operation it called
    ckeys,              \* per caller: conversation_ids its kill_all_processes has still to visit
    cres,               \* per caller: what its last call returned
    signalled,          \* per session: how many times child.kill() was called on it
    \* ---- the application state and concurrent executions ----
    working_directory,  \* AppState.ui_state.working_directory (an Option)
    agents,             \* AppState.agents: the registry, as records of id and agent_type
    runs,               \* per execution: its plan, position, context and history
    contexts,           \* per Context object: its entries, each with the execution that set it
    elapsed,            \* seconds since execute_plan_with_config was called
    serializeFails      \* the yields of the stream whose serde_json::to_string fails

execVars == <<pc, attempts, plannerCalls, plannerError, plan, idx, frames,
              max_parallel_tasks, plan_timeout_secs, xstate,
              current_task_id, context, setCalls, taskState, startLog,
              result, results, error, fileWrites>>

killVars == <<kaPc, kaKeys, kaTable, kaCur, killLog>>

lockVars == <<tableLock, mutex, child, cop, ckeys, cres, signalled>>

bridgeVars == <<sessions, spawned, sconv, proc, stdinPipe, stdoutPipe,
                stdoutLock, calls, cpc, cconv, csess, creq, creply, killVars,
                lockVars>>

endpointVars == <<httpRequest, httpResponse>>

appVars == <<working_directory, agents, runs, contexts, elapsed,
             serializeFails>>

vars == <<execVars, bridgeVars, endpointVars, appVars>>

\* ------------------------------------------------------------ plan model

TaskKinds == {"run_gemini", "create_file", "invalid_task"}

\* Option<T>: None is the empty set, Some(v) the set of v alone.
None == {}

Some(v) == {v}

\* Filenames are sequences of characters. "NUL" stands for U+0000 and "LF"
\* for U+000A; both are control characters (char::is_control).
is_control(c) == c \in {"NUL", "LF"}

\* filename.contains("..")
contains_dotdot(f) ==
    \E i \in 1..(Len(f) - 1) : f[i] = "." /\ f[i + 1] = "."

\* filename.starts_with('/')
starts_with_slash(f) == Len(f) > 0 /\ f[1] = "/"

\* filename.contains('\0')
contains_nul(f) == \E i \in DOMAIN f : f[i] = "NUL"

\* The filename the planner's plans use: a plain name.
PlannerFilenames == {<<"a", ".", "t">>}

\* The filenames callers pass directly: also a traversal, an absolute path,
\* a NUL, a control character and a relative path with a directory.
InputFilenames ==
    PlannerFilenames \cup
    {<<".", ".", "/", "a">>, <<"/", "a">>, <<"a", "NUL">>, <<"a", "LF">>,
     <<"d", "/", "a">>}

\* A step: its task kind, its dependencies (step ids; a step's id is its
\* position in plan.steps), and of its params: content_from (0: None,
\* x: "x.output"), filename and prompt (Options).
StepChoices(deps) ==
    {[task |-> k, dependencies |-> deps, content_from |-> 0,
      filename |-> None, prompt |-> Some("p")] :
          k \in {"run_gemini", "invalid_task"}}
    \cup {[task |-> "create_file", dependencies |-> deps, content_from |-> c,
           filename |-> Some(f), prompt |-> None] :
              c \in {0} \cup deps, f \in PlannerFilenames}

StepIds(p) == 1..Len(p)

\* Steps left after repeatedly removing those with no dependency in S.
RECURSIVE Unresolved(_, _)
Unresolved(d, S) ==
    LET free == {s \in S : d[s] \cap S = {}}
    IN  IF free = {} THEN S ELSE Unresolved(d, S \ free)

\* The steps reachable from the steps of S along dependencies.
RECURSIVE Closure(_, _)
Closure(p, S) ==
    LET n == S \cup UNION {p[s].dependencies \cap StepIds(p) : s \in S}
    IN  IF n = S THEN S ELSE Closure(p, n)

\* Whether step s depends, directly or not, on itself.
OnCycle(p, s) == s \in Closure(p, p[s].dependencies \cap StepIds(p))

\* The first element of a non-empty set of step ids.
First(S) == CHOOSE x \in S : \A y \in S : x <= y

NoError == [rule |-> "none", step |-> 0, secs |-> 0]

\* Plan::validate, with the rule it reports and the step it names: in
\* order, the plan is non-empty, every dependency resolves, the dependency
\* relation is acyclic (the error names a step of a cycle), content_from
\* names a declared dependency. The task kind is a free string to it.
\* build_graph_from_plan repeats the parameter and filename checks itself,
\* so what it accepts does not depend on whether validate makes them too.
validate_error(p) ==
    LET dangling == {s \in StepIds(p) : ~(p[s].dependencies \subseteq StepIds(p))}
        cyclic == {s \in StepIds(p) : OnCycle(p, s)}
        inconsistent == {s \in StepIds(p) :
                            /\ p[s].content_from # 0
                            /\ p[s].content_from \notin p[s].dependencies}
    IN  IF Len(p) = 0 THEN [NoError EXCEPT !.rule = "empty"]
        ELSE IF dangling # {}
        THEN [NoError EXCEPT !.rule = "dependency", !.step = First(dangling)]
        ELSE IF Unresolved([s \in StepIds(p) |-> p[s].dependencies], StepIds(p)) # {}
        THEN [NoError EXCEPT !.rule = "circular", !.step = First(cyclic)]
        ELSE IF inconsistent # {}
        THEN [NoError EXCEPT !.rule = "content_from", !.step = First(inconsistent)]
        ELSE NoError

validate(p) == validate_error(p) = NoError

\* The plans of n steps in which every step depends on earlier steps only
\* (the order the planner's meta-prompt asks for).
RECURSIVE PlansOfLen(_)
PlansOfLen(n) ==
    IF n = 0 THEN {<<>>}
    ELSE {Append(q, r) : q \in PlansOfLen(n - 1),
                         r \in UNION {StepChoices(deps) : deps \in SUBSET (1..(n - 1))}}

\* The plan of n run_gemini steps declared in the reverse of the order their
\* dependencies impose: each step depends on the step declared after it.
ReversedChain(n) ==
    [i \in 1..n |->
        [task |-> "run_gemini",
         dependencies |-> IF i < n THEN {i + 1} ELSE {},
         content_from |-> 0, filename |-> None, prompt |-> Some("p")]]

\* The plans of n steps try_plan_once can return: parsed, and accepted by
\* validate.
PlannerPlans(n) == {p \in PlansOfLen(n) \cup {ReversedChain(n)} : validate(p)}

\* The last step of a plan of n steps a caller builds by hand: any task
\* kind, any dependencies (n + 1 is the id of no step), any params.
InputLastSteps(n) ==
    UNION {
        {[task |-> k, dependencies |-> deps, content_from |-> 0,
          filename |-> None, prompt |-> pr] :
              k \in {"run_gemini", "invalid_task"}, pr \in {None, Some("p")}}
        \cup {[task |-> "create_file", dependencies |-> deps, content_from |-> c,
               filename |-> fo, prompt |-> None] :
                  c \in 0..n,
                  fo \in {None} \cup {Some(f) : f \in InputFilenames}}
        : deps \in SUBSET (1..(n + 1))}

\* The plans a caller passes to execute_plan directly: run_gemini steps with
\* any dependencies among the plan's steps, then one arbitrary last step.
InputPlansOfLen(n) ==
    {[i \in 1..n |->
         IF i < n
         THEN [task |-> "run_gemini", dependencies |-> d[i], content_from |-> 0,
               filename |-> None, prompt |-> Some("p")]
         ELSE last] :
        d \in [1..(n - 1) -> SUBSET (1..n)], last \in InputLastSteps(n)}

\* Mutant of find_start_step_id: always the first declared step.
find_start_step_id_First(p) == 1

\* find_start_step_id: the first step with no dependencies, else the first.
find_start_step_id(p) ==
    IF \E s \in StepIds(p) : p[s].dependencies = {}
    THEN CHOOSE s \in StepIds(p) :
             /\ p[s].dependencies = {}
             /\ \A t \in 1..(s - 1) : p[t].dependencies # {}
    ELSE 1

\* build_graph_from_plan's filename check: "..", a leading '/', NUL or any
\* control character.
build_rejects_filename(f) ==
    \/ contains_dotdot(f) \/ starts_with_slash(f)
    \/ contains_nul(f) \/ \E i \in DOMAIN f : is_control(f[i])

\* build_graph_from_plan's match on step.task: the rule a step breaks
\* ("none": a task is built for it).
build_step_error(st) ==
    CASE st.task = "run_gemini" ->
             IF st.prompt = None THEN "missing_param" ELSE "none"
      [] st.task = "create_file" ->
             IF st.filename = None THEN "missing_param"
             ELSE IF \E f \in st.filename : build_rejects_filename(f)
                  THEN "invalid_filename" ELSE "none"
      [] OTHER -> "unknown_task"

\* Mutant of build_own_checks: tasks are built lazily, when they are run.
build_own_checks_NonEmpty(p) == Len(p) > 0

\* The checks build_graph_from_plan makes itself, after Plan::validate: the
\* plan has steps and a task can be built for every step.
build_own_checks(p) ==
    /\ Len(p) > 0
    /\ \A s \in StepIds(p) : build_step_error(p[s]) = "none"

\* Mutant of build_graph_ok: the builder does not call Plan::validate.
build_graph_ok_NoValidate(p) == build_own_checks(p)

\* build_graph_from_plan returns Ok: Plan::validate first, then its own
\* checks.
build_graph_ok(p) == validate(p) /\ build_own_checks(p)

\* The InvalidPlan error build_graph_from_plan returns: the validator's, or
\* that of the first step no task can be built for.
build_graph_error(p) ==
    IF ~validate(p) THEN validate_error(p)
    ELSE IF Len(p) = 0 THEN [NoError EXCEPT !.rule = "empty"]
    ELSE LET bad == {s \in StepIds(p) : build_step_error(p[s]) # "none"}
         IN  IF bad = {} THEN NoError
             ELSE [NoError EXCEPT !.rule = build_step_error(p[First(bad)]),
                                  !.step = First(bad)]

\* The edges build_graph_from_plan adds: dep -> step for every dependency.
OutEdges(p, t) == {v \in StepIds(p) : t \in p[v].dependencies}

\* The task the runner moves the session to after task t returned Continue:
\* the target of the first edge added from t (edges are added step by step
\* in declaration order), 0 when t has no outgoing edge.
find_next_task(p, t) ==
    IF OutEdges(p, t) = {} THEN 0
    ELSE CHOOSE v \in OutEdges(p, t) : \A w \in OutEdges(p, t) : v <= w

\* The elements of a set of step ids, in increasing order.
RECURSIVE InOrder(_)
InOrder(S) ==
    IF S = {} THEN <<>>
    ELSE LET m == CHOOSE x \in S : \A y \in S : x <= y
         IN  <<m>> \o InOrder(S \ {m})

\* --------------------------------------------- SSE frames of the stream

Frame(type, step) == [type |-> type, step |-> step, message |-> ""]

\* Mutant of planning_error_message: the planner's error is reported with
\* the prefix of an execution failure.
planning_error_message_Execution == "Execution failed: "

\* The prefix of the execution_error sent when internal_run_planner failed.
planning_error_message == "Planning failed: "

\* The prefix of the execution_error sent when execute_plan failed.
execution_error_message == "Execution failed: "

\* OrchestrationEvent::ExecutionError { error }: message is the prefix the
\* handler puts before the error's text.
ExecutionErrorFrame(message) ==
    [type |-> "execution_error", step |-> 0, message |-> message]

\* SSE_DONE_SIGNAL, the literal "[DONE]" frame.
DoneFrame == Frame("[DONE]", 0)

\* serialize_event_or_fallback, for the n-th yield of the stream: the event
\* as JSON or, when serde_json::to_string returns Err, the minimal
\* serialization_error frame.
serialize_event_or_fallback(event, n) ==
    IF n \in serializeFails THEN Frame("serialization_error", 0) ELSE event

\* format!("Step {} ({}) did not produce output", step_number, step.id)
did_not_produce_output(n, id) ==
    [text |-> "did not produce output", step_number |-> n, step_id |-> id]

\* The StepResult pushed for step s (its step_number is its position in
\* plan.steps): success iff the key "<s>.output" is in the context; the
\* output is the value stored under that key, the error is synthesized.
StepResult(s, ctx) ==
    [step_id |-> s, step_number |-> s, success |-> s \in ctx,
     output |-> IF s \in ctx THEN Some(s) ELSE None,
     error |-> IF s \in ctx THEN None ELSE Some(did_not_produce_output(s, s))]

\* Mutant of extract_step_results_from_context: every step is reported as
\* successful.
extract_step_results_from_context_AllSucceeded(p, ctx) ==
    [s \in StepIds(p) |-> StepResult(s, StepIds(p))]

\* extract_step_results_from_context: one StepResult per step of plan.steps,
\* pushed in declaration order and sorted by step_number.
extract_step_results_from_context(p, ctx) ==
    [s \in StepIds(p) |-> StepResult(s, ctx)]

\* ------------------------------------------------------------- Init

\* OrchestratorConfig::default().plan_timeout_secs
DefaultPlanTimeoutSecs == 300

NoPlannerError == [kind |-> "none", cause |-> "none"]

\* OrchestratorConfig::default().max_goal_length
DefaultMaxGoalLength == 10000

\* OrchestratorConfig::default().max_parallel_tasks
DefaultMaxParallelTasks == 10

\* OrchestratorConfig::default(), the fields an update can set.
DefaultConfig ==
    [max_parallel_tasks |-> DefaultMaxParallelTasks,
     gemini_model |-> "gemini-2.5-flash",
     max_goal_length |-> DefaultMaxGoalLength,
     plan_timeout_secs |-> DefaultPlanTimeoutSecs]

\* No response yet: status 0, no error, no config in the body.
NoResponse == [status |-> 0, kind |-> "none", message |-> "", config |-> None]

\* What is the same before a request to POST /api/orchestrate and before a
\* direct call of execute_plan_with_config: nothing has run.
InitIdle ==
    /\ attempts = 0
    /\ plannerCalls = 0
    /\ plannerError = NoPlannerError
    /\ frames = <<>>
    /\ max_parallel_tasks \in 1..MaxParallel
    /\ xstate = "idle"
    /\ current_task_id = 0
    /\ context = {}
    /\ setCalls = <<>>
    /\ taskState = <<>>
    /\ startLog = <<>>
    /\ result = "none"
    /\ results = <<>>
    /\ error = NoError
    /\ fileWrites = {}

\* The plan executions that run concurrently, one per request.
Executions == 1..NumCallers

\* An execution that has not begun: no plan, no context, nothing read or
\* written.
IdleRun ==
    [pc |-> "idle", plan |-> <<>>, next |-> 0, ctx |-> 0, startWd |-> None,
     received |-> {}, reads |-> {}, writes |-> {}]

\* AppState::new(): no working directory and an empty registry; no
\* execution has begun.
InitRegistry ==
    /\ working_directory = None
    /\ agents = {}
    /\ runs = [e \in Executions |-> IdleRun]
    /\ contexts = [i \in Executions |-> {}]

\* The application before a request; the clock of the call stands at 0 and
\* serde_json::to_string succeeds on every event.
InitApp ==
    /\ InitRegistry
    /\ elapsed = 0
    /\ serializeFails = {}

\* orchestrate: the stream is not polled yet; execute_plan will run with
\* OrchestratorConfig::default().
InitRequest ==
    /\ pc = "open"
    /\ plan = <<>>
    /\ idx = 0
    /\ plan_timeout_secs = DefaultPlanTimeoutSecs
    /\ InitIdle
    /\ httpRequest = [route |-> "orchestrate", goal_len |-> 0]
    /\ httpResponse = [NoResponse EXCEPT !.status = 200]

InitExec == InitApp /\ InitRequest

\* A caller about to call execute_plan_with_config (or to run one task) with
\* a plan and a timeout of its own.
InitCall ==
    /\ InitApp
    /\ pc = "call"
    /\ \E n \in 1..MaxInputSteps : plan \in InputPlansOfLen(n)
    /\ idx = 0
    /\ plan_timeout_secs \in {1, DefaultPlanTimeoutSecs}
    /\ InitIdle
    /\ httpRequest = [route |-> "none"]
    /\ httpResponse = NoResponse

execUnchanged == <<max_parallel_tasks, plan_timeout_secs, xstate,
                   current_task_id, context, setCalls, taskState, startLog,
                   result, results, error, fileWrites>>

\* ---- bridge: identifiers ----

Callers == 1..NumCallers

\* One conversation: every call is for the same conversation_id.
ConversationIds == {1}

\* Each call constructs at most one BridgeSession.
SessionIds == 1..MaxCalls

\* The Mutex names of a BridgeSession.
MutexNames == {"child", "stdin", "stdout", "stderr"}

\* No lock is held and no call has been made; a session constructed
\* earlier still has its child handle.
LocksFree ==
    /\ tableLock = [readers |-> {}, writer |-> 0]
    /\ mutex = [s \in SessionIds |-> [l \in MutexNames |-> 0]]
    /\ child = [s \in SessionIds |-> proc[s] # "none"]
    /\ cop = [c \in Callers |-> "none"]
    /\ ckeys = [c \in Callers |-> {}]
    /\ cres = [c \in Callers |-> "none"]
    /\ signalled = [s \in SessionIds |-> 0]

\* BridgeManager::new: an empty table; no session constructed, no call begun.
InitBridge ==
    /\ sessions = [k \in ConversationIds |-> 0]
    /\ spawned = 0
    /\ sconv = [s \in SessionIds |-> 0]
    /\ proc = [s \in SessionIds |-> "none"]
    /\ stdinPipe = [s \in SessionIds |-> <<>>]
    /\ stdoutPipe = [s \in SessionIds |-> <<>>]
    /\ stdoutLock = [s \in SessionIds |-> 0]
    /\ calls = 0
    /\ cpc = [c \in Callers |-> "idle"]
    /\ cconv = [c \in Callers |-> 0]
    /\ csess = [c \in Callers |-> 0]
    /\ creq = [c \in Callers |-> 0]
    /\ creply = [c \in Callers |-> 0]
    /\ kaPc = "idle"
    /\ kaKeys = {}
    /\ kaTable = sessions
    /\ kaCur = 0
    /\ killLog = <<>>
    /\ LocksFree

Init == InitExec /\ InitBridge

\* ---------------------------------------- orchestrate: the stream! block

\* The first yield: the "Planning: Generating execution plan..." status.
StreamOpen ==
    /\ pc = "open"
    /\ frames' = Append(frames, Frame("planning_status", 0))
    /\ pc' = "planning"
    /\ UNCHANGED <<attempts, plannerCalls, plannerError, plan, idx, execUnchanged>>
    /\ UNCHANGED <<bridgeVars, endpointVars, appVars>>

\* Mutant of AfterPlanningError: the stream ends without [DONE].
AfterPlanningError_NoDone == "closed"

\* Where the stream goes after the planner's final failure was reported.
AfterPlanningError == "emit_done"

\* The causes for which try_plan_once fails: the HTTP call, the JSON parse,
\* Plan::validate.
PlannerFailureCauses == {"transport", "parse", "validation"}

\* The AppError try_plan_once returns for a cause: the API client's
\* AppError::Internal, or AppError::InvalidPlan for parse and validation.
try_plan_once_error(cause) ==
    [kind |-> IF cause = "transport" THEN "Internal" ELSE "InvalidPlan",
     cause |-> cause]

\* Mutant of retry_after_failure: a failed retry is retried too.
retry_after_failure_Again(n) == n <= 1

\* internal_run_planner: whether a failed try_plan_once is followed by
\* another one, n being the calls made before it: only the first is.
retry_after_failure(n) == n = 0

\* internal_run_planner: try_plan_once succeeds, and plan_generated is sent.
PlannerSucceeds ==
    /\ pc = "planning"
    /\ attempts' = attempts + 1
    /\ plannerCalls' = plannerCalls + 1
    /\ plannerError' = NoPlannerError
    /\ \E n \in 1..MaxSteps : plan' \in PlannerPlans(n)
    /\ frames' = Append(frames, serialize_event_or_fallback(
                              Frame("plan_generated", 0), Len(frames) + 1))
    /\ idx' = 1
    /\ pc' = "step_start"
    /\ UNCHANGED execUnchanged
    /\ UNCHANGED <<bridgeVars, endpointVars, appVars>>

\* internal_run_planner: try_plan_once fails; the first failure is retried
\* once, the second is returned and reported as execution_error "Planning
\* failed: ...".
PlannerFails(cause) ==
    /\ pc = "planning"
    /\ attempts' = attempts + 1
    /\ plannerCalls' = plannerCalls + 1
    /\ plannerError' = try_plan_once_error(cause)
    /\ IF retry_after_failure(attempts)
       THEN /\ UNCHANGED <<frames, pc>>
       ELSE /\ frames' = Append(frames, serialize_event_or_fallback(
                              ExecutionErrorFrame(planning_error_message), Len(frames) + 1))
            /\ pc' = AfterPlanningError
    /\ UNCHANGED <<plan, idx, execUnchanged>>
    /\ UNCHANGED <<bridgeVars, endpointVars, appVars>>

\* The loop that sends one step_start per step, in declaration order.
EmitStepStart ==
    /\ pc = "step_start"
    /\ idx <= Len(plan)
    /\ frames' = Append(frames, serialize_event_or_fallback(
                              Frame("step_start", idx), Len(frames) + 1))
    /\ idx' = idx + 1
    /\ UNCHANGED <<pc, attempts, plannerCalls, plannerError, plan, execUnchanged>>
    /\ UNCHANGED <<bridgeVars, endpointVars, appVars>>

\* ------------------------------------------------ execute_plan (executor)

\* execute_plan_inner up to the run loop: build_graph_from_plan, then a
\* session positioned on find_start_step_id(plan). The handler calls it
\* after its step_start loop, other callers directly.
ExecuteBegin ==
    /\ \/ pc = "step_start" /\ idx > Len(plan)
       \/ pc = "call"
    /\ pc' = "execute"
    /\ taskState' = [s \in StepIds(plan) |-> "pending"]
    /\ IF build_graph_ok(plan)
       THEN /\ current_task_id' = find_start_step_id(plan)
            /\ xstate' = "ready"
            /\ UNCHANGED <<result, error>>
       ELSE /\ result' = "InvalidPlan"
            /\ error' = build_graph_error(plan)
            /\ xstate' = "returned"
            /\ UNCHANGED current_task_id
    /\ UNCHANGED <<attempts, plannerCalls, plannerError, plan, idx, frames,
                   max_parallel_tasks, plan_timeout_secs, context,
                   setCalls, startLog, results, fileWrites>>
    /\ UNCHANGED <<bridgeVars, endpointVars, appVars>>

\* Mutant of TasksStartedByRun: one run call starts, beside the current
\* task, every pending step whose dependencies are written.
TasksStartedByRun_FanOut(cur) ==
    {cur} \cup {s \in StepIds(plan) :
                    /\ taskState[s] = "pending"
                    /\ plan[s].dependencies \subseteq context}

\* The tasks one FlowRunner::run call starts: the session's current task.
TasksStartedByRun(cur) == {cur}

\* runner.run(&session_id): Task::run of the current task begins.
RunnerRun ==
    /\ pc = "execute"
    /\ xstate = "ready"
    /\ taskState' = [s \in StepIds(plan) |->
                        IF s \in TasksStartedByRun(current_task_id)
                        THEN "running" ELSE taskState[s]]
    /\ startLog' = startLog \o
                     [i \in 1..Cardinality(TasksStartedByRun(current_task_id)) |->
                         [task |-> InOrder(TasksStartedByRun(current_task_id))[i],
                          context |-> context]]
    /\ xstate' = "running"
    /\ UNCHANGED <<pc, attempts, plannerCalls, plannerError, plan, idx, frames,
                   max_parallel_tasks, plan_timeout_secs,
                   current_task_id, context, setCalls, result, results,
                   error, fileWrites>>
    /\ UNCHANGED <<bridgeVars, endpointVars, appVars>>

\* Mutant of OutputKey: every task writes the first step's key.
OutputKey_FirstStep(step_id) == 1

\* The context key a task writes: "<its own step id>.output".
OutputKey(step_id) == step_id

\* Mutant of task_rejects_filename: CreateFileTask::run checks nothing.
task_rejects_filename_Nothing(f) == FALSE

\* CreateFileTask::run's filename check: "..", a leading '/', NUL or any
\* control character.
task_rejects_filename(f) ==
    \/ contains_dotdot(f) \/ starts_with_slash(f)
    \/ contains_nul(f) \/ \E i \in DOMAIN f : is_control(f[i])

\* Whether Task::run of step st can return Ok in context ctx. run_gemini
\* depends on the LLM only. create_file built by CreateFileTask::new has no
\* direct content: it fails on a rejected filename, without content_from,
\* and when the key content_from names is absent.
TaskCanSucceed(st, ctx) ==
    \/ st.task = "run_gemini"
    \/ /\ st.task = "create_file"
       /\ \A f \in st.filename : ~task_rejects_filename(f)
       /\ st.content_from # 0
       /\ st.content_from \in ctx

CanSucceed(p, t, ctx) == TaskCanSucceed(p[t], ctx)

\* The files a successful Task::run of step t has written through
\* internal_create_file: none for run_gemini, the named file for create_file.
FilesWrittenBy(st, t) ==
    IF st.task = "create_file"
    THEN {[step |-> t, filename |-> f, complete |-> TRUE] : f \in st.filename}
    ELSE {}

\* The files a Task::run of step t that fails, or is dropped while it runs,
\* may leave partly written: a create_file that got as far as
\* internal_create_file can have written some of its file.
FilesPartlyWrittenBy(st, t, ctx) ==
    IF st.task = "create_file" /\ TaskCanSucceed(st, ctx)
    THEN {[step |-> t, filename |-> f, complete |-> FALSE] : f \in st.filename}
    ELSE {}

\* Mutant of KeysSetByUnfinished: the output key is set before the side
\* effect is awaited.
KeysSetByUnfinished_Early(t) == {t}

\* The context keys a Task::run of step t has set when it returns Err or is
\* dropped: none, context.set follows the `?` of the side effect.
KeysSetByUnfinished(t) == {}

\* Mutant of convert_graph_error: a task's failure becomes a GraphError.
convert_graph_error_Graph(kind) ==
    IF kind \in {"StorageError", "SessionNotFound"} THEN "SessionError"
    ELSE "GraphError"

\* convert_graph_error: the AppError kind for a graph_flow::GraphError kind.
convert_graph_error(kind) ==
    CASE kind = "TaskExecutionFailed" -> "TaskExecutionFailed"
      [] kind \in {"StorageError", "SessionNotFound"} -> "SessionError"
      [] OTHER -> "GraphError"

\* Mutant of LoopAfterRunError: the loop goes on after a task's error.
LoopAfterRunError_Continue == "ready"

\* What the run loop does when runner.run returned Err: `?` returns it.
LoopAfterRunError == "returned"

\* Task::run returns Ok(Continue), the runner follows an outgoing edge and
\* reports Paused; the loop continues with the next task.
TaskContinue(t) ==
    /\ pc = "execute"
    /\ xstate = "running"
    /\ taskState[t] = "running"
    /\ CanSucceed(plan, t, context)
    /\ find_next_task(plan, t) # 0
    /\ fileWrites' = fileWrites \cup FilesWrittenBy(plan[t], t)
    /\ context' = context \cup {OutputKey(t)}
    /\ setCalls' = Append(setCalls, <<t, OutputKey(t)>>)
    /\ taskState' = [taskState EXCEPT ![t] = "succeeded"]
    /\ current_task_id' = find_next_task(plan, t)
    /\ xstate' = "ready"
    /\ UNCHANGED <<pc, attempts, plannerCalls, plannerError, plan, idx, frames,
                   max_parallel_tasks, plan_timeout_secs,
                   startLog, result, results, error>>
    /\ UNCHANGED <<bridgeVars, endpointVars, appVars>>

\* Task::run returns Ok(Continue) and the task has no outgoing edge: the
\* runner reports Paused "No outgoing edge found", the loop breaks whether
\* or not every step has an output, and the results are extracted.
TaskNoOutgoingEdge(t) ==
    /\ pc = "execute"
    /\ xstate = "running"
    /\ taskState[t] = "running"
    /\ CanSucceed(plan, t, context)
    /\ find_next_task(plan, t) = 0
    /\ fileWrites' = fileWrites \cup FilesWrittenBy(plan[t], t)
    /\ context' = context \cup {OutputKey(t)}
    /\ setCalls' = Append(setCalls, <<t, OutputKey(t)>>)
    /\ taskState' = [taskState EXCEPT ![t] = "succeeded"]
    /\ result' = "Ok"
    /\ results' = extract_step_results_from_context(plan, context')
    /\ xstate' = "returned"
    /\ UNCHANGED <<pc, attempts, plannerCalls, plannerError, plan, idx, frames,
                   max_parallel_tasks, plan_timeout_secs,
                   current_task_id, startLog, error>>
    /\ UNCHANGED <<bridgeVars, endpointVars, appVars>>

\* Task::run returns Err(TaskExecutionFailed): the LLM call or the file
\* write failed, the filename was rejected or create_file found no content.
\* runner.run returns the error, convert_graph_error converts it.
TaskFails(t) ==
    /\ pc = "execute"
    /\ xstate = "running"
    /\ taskState[t] = "running"
    /\ taskState' = [taskState EXCEPT ![t] = "failed"]
    /\ xstate' = LoopAfterRunError
    /\ result' = IF LoopAfterRunError = "returned"
                 THEN convert_graph_error("TaskExecutionFailed") ELSE result
    /\ error' = IF LoopAfterRunError = "returned"
                THEN [NoError EXCEPT !.rule = "task", !.step = t] ELSE error
    /\ \E w \in SUBSET FilesPartlyWrittenBy(plan[t], t, context) :
           fileWrites' = fileWrites \cup w
    /\ context' = context \cup KeysSetByUnfinished(t)
    /\ UNCHANGED <<pc, attempts, plannerCalls, plannerError, plan, idx, frames,
                   max_parallel_tasks, plan_timeout_secs,
                   current_task_id, setCalls, startLog, results>>
    /\ UNCHANGED <<bridgeVars, endpointVars, appVars>>

\* Mutant of timeout_message_secs: the message prints milliseconds.
timeout_message_secs_Millis(secs) == secs * 1000

\* The number of seconds in "Plan execution timed out after {} seconds":
\* Duration::from_secs(config.plan_timeout_secs).as_secs().
timeout_message_secs(secs) == secs

\* Mutant of timeout_covers: only a running task is under the timeout.
timeout_covers_Task(xs) == xs = "running"

\* execute_plan_with_config: timeout(plan_timeout, execute_plan_inner(..))
\* wraps the whole of execute_plan_inner, the loop between two tasks as
\* well as a running task.
timeout_covers(xs) == xs \in {"ready", "running"}

\* execute_plan_with_config: plan_timeout_secs elapse before
\* execute_plan_inner returns; its future is dropped.
PlanTimeout ==
    /\ pc = "execute"
    /\ timeout_covers(xstate)
    /\ taskState' = [s \in StepIds(plan) |->
                        IF taskState[s] = "running" THEN "cancelled"
                        ELSE taskState[s]]
    /\ result' = "Timeout"
    /\ error' = [NoError EXCEPT !.rule = "timeout",
                                !.secs = timeout_message_secs(plan_timeout_secs)]
    /\ xstate' = "returned"
    /\ \E w \in SUBSET UNION {FilesPartlyWrittenBy(plan[s], s, context) :
                                 s \in {r \in StepIds(plan) :
                                           taskState[r] = "running"}} :
           fileWrites' = fileWrites \cup w
    /\ context' = context \cup UNION {KeysSetByUnfinished(s) :
                                        s \in {r \in StepIds(plan) :
                                                  taskState[r] = "running"}}
    /\ UNCHANGED <<pc, attempts, plannerCalls, plannerError, plan, idx, frames,
                   max_parallel_tasks, plan_timeout_secs,
                   current_task_id, setCalls, startLog, results>>
    /\ UNCHANGED <<bridgeVars, endpointVars, appVars>>

\* A caller constructs CreateFileTask::new for the plan's last step and runs
\* it on a fresh Context holding the output keys ctx; ok is whether the
\* file write succeeds.
CreateFileTaskRun(ctx, ok) ==
    /\ pc = "call"
    /\ plan[Len(plan)].task = "create_file"
    /\ plan[Len(plan)].filename # None
    /\ pc' = "task_done"
    /\ startLog' = Append(startLog, [task |-> Len(plan), context |-> ctx])
    /\ IF ok /\ TaskCanSucceed(plan[Len(plan)], ctx)
       THEN /\ fileWrites' = fileWrites \cup FilesWrittenBy(plan[Len(plan)], Len(plan))
            /\ context' = ctx \cup {OutputKey(Len(plan))}
            /\ setCalls' = Append(setCalls, <<Len(plan), OutputKey(Len(plan))>>)
            /\ taskState' = [s \in StepIds(plan) |->
                                IF s = Len(plan) THEN "succeeded" ELSE "pending"]
            /\ result' = "Ok"
            /\ UNCHANGED error
       ELSE /\ context' = ctx \cup KeysSetByUnfinished(Len(plan))
            /\ taskState' = [s \in StepIds(plan) |->
                                IF s = Len(plan) THEN "failed" ELSE "pending"]
            /\ result' = "TaskExecutionFailed"
            /\ error' = [NoError EXCEPT !.rule = "task", !.step = Len(plan)]
            /\ \E w \in SUBSET FilesPartlyWrittenBy(plan[Len(plan)],
                                                    Len(plan), ctx) :
                   fileWrites' = fileWrites \cup w
            /\ UNCHANGED setCalls
    /\ UNCHANGED <<attempts, plannerCalls, plannerError, plan, idx, frames,
                   max_parallel_tasks, plan_timeout_secs, xstate,
                   current_task_id, results>>
    /\ UNCHANGED <<bridgeVars, endpointVars, appVars>>

\* ---------------------------------- orchestrate: after execute_plan

\* Mutant of AfterStepError: the result loop goes on after a step_error.
AfterStepError_Continue == "emit_results"

\* Where the stream goes after a step_error frame: straight to [DONE].
AfterStepError == "emit_done"

\* execute_plan returned: Ok starts the result loop, Err sends
\* execution_error "Execution failed: ...".
ExecuteReturned ==
    /\ pc = "execute"
    /\ xstate = "returned"
    /\ IF result = "Ok"
       THEN /\ pc' = "emit_results"
            /\ idx' = 1
            /\ UNCHANGED frames
       ELSE /\ frames' = Append(frames, serialize_event_or_fallback(
                              ExecutionErrorFrame(execution_error_message), Len(frames) + 1))
            /\ pc' = "emit_done"
            /\ UNCHANGED idx
    /\ UNCHANGED <<attempts, plannerCalls, plannerError, plan, execUnchanged>>
    /\ UNCHANGED <<bridgeVars, endpointVars, appVars>>

\* The result loop: step_complete for a successful result; step_error for
\* the first unsuccessful one, after which the stream is ended.
EmitResult ==
    /\ pc = "emit_results"
    /\ idx <= Len(results)
    /\ IF results[idx].success
       THEN /\ frames' = Append(frames, serialize_event_or_fallback(
                              Frame("step_complete", results[idx].step_id), Len(frames) + 1))
            /\ UNCHANGED pc
       ELSE /\ frames' = Append(frames, serialize_event_or_fallback(
                              Frame("step_error", results[idx].step_id), Len(frames) + 1))
            /\ pc' = AfterStepError
    /\ idx' = idx + 1
    /\ UNCHANGED <<attempts, plannerCalls, plannerError, plan, execUnchanged>>
    /\ UNCHANGED <<bridgeVars, endpointVars, appVars>>

\* After the result loop: execution_complete.
EmitExecutionComplete ==
    /\ pc = "emit_results"
    /\ idx > Len(results)
    /\ frames' = Append(frames, serialize_event_or_fallback(
                              Frame("execution_complete", 0), Len(frames) + 1))
    /\ pc' = "emit_done"
    /\ UNCHANGED <<attempts, plannerCalls, plannerError, plan, idx, execUnchanged>>
    /\ UNCHANGED <<bridgeVars, endpointVars, appVars>>

\* yield SSE_DONE_SIGNAL; the stream ends.
EmitDone ==
    /\ pc = "emit_done"
    /\ frames' = Append(frames, DoneFrame)
    /\ pc' = "closed"
    /\ UNCHANGED <<attempts, plannerCalls, plannerError, plan, idx, execUnchanged>>
    /\ UNCHANGED <<bridgeVars, endpointVars, appVars>>

Next ==
    \/ StreamOpen
    \/ PlannerSucceeds
    \/ \E cause \in PlannerFailureCauses : PlannerFails(cause)
    \/ EmitStepStart
    \/ ExecuteBegin
    \/ RunnerRun
    \/ \E t \in StepIds(plan) : TaskContinue(t)
    \/ \E t \in StepIds(plan) : TaskNoOutgoingEdge(t)
    \/ \E t \in StepIds(plan) : TaskFails(t)
    \/ PlanTimeout
    \/ ExecuteReturned
    \/ EmitResult
    \/ EmitExecutionComplete
    \/ EmitDone

Spec == Init /\ [][Next]_vars

\* The yields that go through serialize_event_or_fallback: all but the
\* first one and the [DONE] signals.
MaxFrames == 2 * MaxSteps + 3

\* A request whose stream meets one event that serde_json::to_string
\* returns Err for.
InitStream ==
    /\ InitRequest
    /\ InitBridge
    /\ InitRegistry
    /\ elapsed = 0
    /\ \E n \in 2..MaxFrames : serializeFails = {n}

SpecStream == InitStream /\ [][Next]_vars

\* Callers of the orchestrator's library functions, as its tests are:
\* execute_plan_with_config on a plan built by hand, or one task run alone.
NextExecute ==
    \/ ExecuteBegin
    \/ RunnerRun
    \/ \E t \in StepIds(plan) : TaskContinue(t)
    \/ \E t \in StepIds(plan) : TaskNoOutgoingEdge(t)
    \/ \E t \in StepIds(plan) : TaskFails(t)
    \/ PlanTimeout
    \/ \E ctx \in SUBSET StepIds(plan) : \E ok \in BOOLEAN :
           CreateFileTaskRun(ctx, ok)

InitExecute == InitCall /\ InitBridge

SpecExecute == InitExecute /\ [][NextExecute]_vars

\* ---- execute_plan_with_config against the clock ----
\*
\* The call is followed second by second; the runner may report Paused
\* (for a reason other than "No outgoing edge found") or WaitingForInput
\* for a task that has not finished, as often as it likes.

\* The run loop's `continue` arms: runner.run reported WaitingForInput, or
\* Paused without the task having produced its output.
RunnerReportsAgain(t) ==
    /\ pc = "execute"
    /\ xstate = "running"
    /\ taskState[t] = "running"
    /\ taskState' = [taskState EXCEPT ![t] = "waiting"]
    /\ xstate' = "ready"
    /\ UNCHANGED <<pc, attempts, plannerCalls, plannerError, plan, idx, frames,
                   max_parallel_tasks, plan_timeout_secs, current_task_id,
                   context, setCalls, startLog, result, results, error,
                   fileWrites>>
    /\ UNCHANGED <<bridgeVars, endpointVars, appVars>>

\* The next iteration of the loop: runner.run resumes the session's
\* current task.
RunnerRunAgain ==
    /\ pc = "execute"
    /\ xstate = "ready"
    /\ taskState[current_task_id] = "waiting"
    /\ taskState' = [taskState EXCEPT ![current_task_id] = "running"]
    /\ xstate' = "running"
    /\ UNCHANGED <<pc, attempts, plannerCalls, plannerError, plan, idx, frames,
                   max_parallel_tasks, plan_timeout_secs, current_task_id,
                   context, setCalls, startLog, result, results, error,
                   fileWrites>>
    /\ UNCHANGED <<bridgeVars, endpointVars, appVars>>

\* runner.run for a task that has not run yet.
RunnerRunFirst ==
    /\ pc = "execute"
    /\ xstate = "ready"
    /\ taskState[current_task_id] = "pending"
    /\ RunnerRun

\* tokio::time::timeout: the deadline of the call has passed and the
\* wrapped future is at an await.
deadline_reached ==
    /\ pc = "execute"
    /\ timeout_covers(xstate)
    /\ elapsed >= plan_timeout_secs

\* The Elapsed outcome of timeout(..).await, mapped to AppError::Timeout.
DeadlineTimeout == deadline_reached /\ PlanTimeout

\* A second passes while the call has not returned; at the deadline the
\* timer fires before more time passes.
Tick ==
    /\ pc = "execute"
    /\ xstate \in {"ready", "running"}
    /\ ~deadline_reached
    /\ elapsed <= plan_timeout_secs
    /\ elapsed' = elapsed + 1
    /\ UNCHANGED <<working_directory, agents, runs, contexts, serializeFails>>
    /\ UNCHANGED <<execVars, bridgeVars, endpointVars>>

\* A caller about to call execute_plan_with_config with a plan and a
\* configured timeout of a few seconds.
InitRunLoop ==
    /\ InitApp
    /\ pc = "call"
    /\ \E n \in 1..MaxInputSteps : plan \in InputPlansOfLen(n)
    /\ idx = 0
    /\ plan_timeout_secs \in 1..MaxConfigValue
    /\ InitIdle
    /\ httpRequest = [route |-> "none"]
    /\ httpResponse = NoResponse
    /\ InitBridge

NextRunLoop ==
    \/ ExecuteBegin
    \/ RunnerRunFirst
    \/ RunnerRunAgain
    \/ \E t \in StepIds(plan) : RunnerReportsAgain(t)
    \/ \E t \in StepIds(plan) : TaskContinue(t)
    \/ \E t \in StepIds(plan) : TaskNoOutgoingEdge(t)
    \/ \E t \in StepIds(plan) : TaskFails(t)
    \/ DeadlineTimeout
    \/ Tick

\* The caller awaits the call, time passes, and the tokio timer fires when
\* its deadline is reached.
SpecRunLoop ==
    /\ InitRunLoop
    /\ [][NextRunLoop]_vars
    /\ WF_vars(ExecuteBegin)
    /\ WF_vars(Tick)
    /\ WF_vars(DeadlineTimeout)

\* ===================================================== bridge manager
\*
\* Callers run BridgeManager::send_message concurrently (one tokio task per
\* chat request).  Each await point at which another task can run separates
\* two actions; a lock held across a step is taken and released inside it.

\* kill_all_processes holds the table's write lock from its first line to
\* its return; no reader and no other writer gets the lock meanwhile.
sessions_write_held == kaPc \in {"loop", "kill"}

\* Mutant of is_running: a child that was spawned counts as running.
is_running_Spawned(s) == proc[s] # "none"

\* Mutant of is_running: no child counts as running.
is_running_Never(s) == FALSE

\* is_running(): the child handle is present and try_wait() reports no exit.
is_running(s) == proc[s] = "running"

\* impl Drop for BridgeSession: when the last Arc goes (the table entry and
\* every caller's clone), start_kill() is sent to a still running child.
Drop(p, table, held) ==
    [s \in SessionIds |->
        IF /\ p[s] = "running"
           /\ child[s]
           /\ \A k \in DOMAIN table : table[k] # s
           /\ \A c \in Callers : held[c] # s
           /\ kaCur # s
        THEN "killed" ELSE p[s]]

\* A caller enters BridgeManager::send_message(conversation_id, ..).
SendMessageBegin(c, k) ==
    /\ cpc[c] = "idle"
    /\ calls < MaxCalls
    /\ calls' = calls + 1
    /\ cpc' = [cpc EXCEPT ![c] = "lookup"]
    /\ cconv' = [cconv EXCEPT ![c] = k]
    /\ creq' = [creq EXCEPT ![c] = calls + 1]
    /\ creply' = [creply EXCEPT ![c] = 0]
    /\ UNCHANGED <<sessions, spawned, sconv, proc, stdinPipe, stdoutPipe,
                   stdoutLock, csess>>
    /\ UNCHANGED <<execVars, killVars, endpointVars, appVars, lockVars>>

\* get_or_create_session, under the read lock: a running session in the table
\* is returned; a dead one sends the caller to remove it; none, to create.
GetLookup(c) ==
    /\ cpc[c] = "lookup"
    /\ ~sessions_write_held
    /\ LET s == sessions[cconv[c]] IN
         IF s # 0 /\ is_running(s)
         THEN /\ csess' = [csess EXCEPT ![c] = s]
              /\ cpc' = [cpc EXCEPT ![c] = "send_write"]
         ELSE /\ csess' = csess
              /\ cpc' = [cpc EXCEPT ![c] = IF s # 0 THEN "remove_dead"
                                                    ELSE "create"]
    /\ UNCHANGED <<sessions, spawned, sconv, proc, stdinPipe, stdoutPipe,
                   stdoutLock, calls, cconv, creq, creply>>
    /\ UNCHANGED <<execVars, killVars, endpointVars, appVars, lockVars>>

\* get_or_create_session: the read lock is dropped, the write lock taken and
\* whatever entry the conversation has by then is removed.
GetRemoveDead(c) ==
    /\ cpc[c] = "remove_dead"
    /\ ~sessions_write_held
    /\ sessions' = [sessions EXCEPT ![cconv[c]] = 0]
    /\ proc' = Drop(proc, sessions', csess)
    /\ cpc' = [cpc EXCEPT ![c] = "create"]
    /\ UNCHANGED <<spawned, sconv, stdinPipe, stdoutPipe, stdoutLock, calls,
                   cconv, csess, creq, creply>>
    /\ UNCHANGED <<execVars, killVars, endpointVars, appVars, lockVars>>

\* get_or_create_session: BridgeSession::new, with no lock held, spawns a
\* sidecar.
GetCreate(c) ==
    /\ cpc[c] = "create"
    /\ spawned' = spawned + 1
    /\ sconv' = [sconv EXCEPT ![spawned + 1] = cconv[c]]
    /\ proc' = [proc EXCEPT ![spawned + 1] = "running"]
    /\ csess' = [csess EXCEPT ![c] = spawned + 1]
    /\ cpc' = [cpc EXCEPT ![c] = "insert"]
    /\ child' = [child EXCEPT ![spawned + 1] = TRUE]
    /\ UNCHANGED <<sessions, stdinPipe, stdoutPipe, stdoutLock, calls, cconv,
                   creq, creply>>
    /\ UNCHANGED <<execVars, killVars, endpointVars, appVars, tableLock, mutex, cop,
                   ckeys, cres, signalled>>

\* get_or_create_session: BridgeSession::new fails and the error is returned.
GetCreateFails(c) ==
    /\ cpc[c] = "create"
    /\ cpc' = [cpc EXCEPT ![c] = "idle"]
    /\ UNCHANGED <<sessions, spawned, sconv, proc, stdinPipe, stdoutPipe,
                   stdoutLock, calls, cconv, csess, creq, creply>>
    /\ UNCHANGED <<execVars, killVars, endpointVars, appVars, lockVars>>

\* get_or_create_session: under the write lock the new session is inserted,
\* replacing any entry of the conversation, and returned.
GetInsert(c) ==
    /\ cpc[c] = "insert"
    /\ ~sessions_write_held
    /\ sessions' = [sessions EXCEPT ![cconv[c]] = csess[c]]
    /\ proc' = Drop(proc, sessions', csess)
    /\ cpc' = [cpc EXCEPT ![c] = "send_write"]
    /\ UNCHANGED <<spawned, sconv, stdinPipe, stdoutPipe, stdoutLock, calls,
                   cconv, csess, creq, creply>>
    /\ UNCHANGED <<execVars, killVars, endpointVars, appVars, lockVars>>

\* The caller's send_message returns: its Arc is dropped, a stdout guard it
\* holds is released.
Returned(c) ==
    /\ cpc' = [cpc EXCEPT ![c] = "idle"]
    /\ csess' = [csess EXCEPT ![c] = 0]
    /\ stdoutLock' = [s \in SessionIds |->
                        IF stdoutLock[s] = c THEN 0 ELSE stdoutLock[s]]
    /\ proc' = Drop(proc, sessions, csess')

\* BridgeSession::send_message: under the stdin mutex the request line is
\* written and flushed; the guard is released at the end of the block.
SendWrite(c) ==
    /\ cpc[c] = "send_write"
    /\ is_running(csess[c])
    /\ stdinPipe' = [stdinPipe EXCEPT ![csess[c]] = Append(@, creq[c])]
    /\ cpc' = [cpc EXCEPT ![c] = "check_alive"]
    /\ UNCHANGED <<sessions, spawned, sconv, proc, stdoutPipe, stdoutLock,
                   calls, cconv, csess, creq, creply>>
    /\ UNCHANGED <<execVars, killVars, endpointVars, appVars, lockVars>>

\* BridgeSession::send_message: the write fails on the pipe of an exited
\* sidecar.
SendWriteFails(c) ==
    /\ cpc[c] = "send_write"
    /\ ~is_running(csess[c])
    /\ Returned(c)
    /\ UNCHANGED <<sessions, spawned, sconv, stdinPipe, stdoutPipe, calls,
                   cconv, creq, creply>>
    /\ UNCHANGED <<execVars, killVars, endpointVars, appVars, lockVars>>

\* BridgeSession::send_message: try_wait() before reading; an exited sidecar
\* is an error.
SendCheckAlive(c) ==
    /\ cpc[c] = "check_alive"
    /\ IF is_running(csess[c])
       THEN /\ cpc' = [cpc EXCEPT ![c] = "lock_stdout"]
            /\ UNCHANGED <<csess, stdoutLock, proc>>
       ELSE Returned(c)
    /\ UNCHANGED <<sessions, spawned, sconv, stdinPipe, stdoutPipe, calls,
                   cconv, creq, creply>>
    /\ UNCHANGED <<execVars, killVars, endpointVars, appVars, lockVars>>

\* BridgeSession::send_message: self.stdout.lock().await.
SendLockStdout(c) ==
    /\ cpc[c] = "lock_stdout"
    /\ stdoutLock[csess[c]] = 0
    /\ stdoutLock' = [stdoutLock EXCEPT ![csess[c]] = c]
    /\ cpc' = [cpc EXCEPT ![c] = "read_line"]
    /\ UNCHANGED <<sessions, spawned, sconv, proc, stdinPipe, stdoutPipe,
                   calls, cconv, csess, creq, creply>>
    /\ UNCHANGED <<execVars, killVars, endpointVars, appVars, lockVars>>

\* BridgeSession::send_message: read_line returns the next line of stdout,
\* which the caller takes as the response to its request.
SendReadLine(c) ==
    /\ cpc[c] = "read_line"
    /\ stdoutPipe[csess[c]] # <<>>
    /\ creply' = [creply EXCEPT ![c] = Head(stdoutPipe[csess[c]])]
    /\ stdoutPipe' = [stdoutPipe EXCEPT ![csess[c]] = Tail(@)]
    /\ Returned(c)
    /\ UNCHANGED <<sessions, spawned, sconv, stdinPipe, calls, cconv, creq>>
    /\ UNCHANGED <<execVars, killVars, endpointVars, appVars, lockVars>>

\* BridgeSession::send_message: read_line returns 0 bytes, the sidecar has
\* closed stdout.
SendReadEof(c) ==
    /\ cpc[c] = "read_line"
    /\ stdoutPipe[csess[c]] = <<>>
    /\ ~is_running(csess[c])
    /\ Returned(c)
    /\ UNCHANGED <<sessions, spawned, sconv, stdinPipe, stdoutPipe, calls,
                   cconv, creq, creply>>
    /\ UNCHANGED <<execVars, killVars, endpointVars, appVars, lockVars>>

\* BridgeSession::send_message: the 120 second timeout around the check, the
\* lock and the read elapses.
SendTimeout(c) ==
    /\ cpc[c] \in {"check_alive", "lock_stdout", "read_line"}
    /\ Returned(c)
    /\ UNCHANGED <<sessions, spawned, sconv, stdinPipe, stdoutPipe, calls,
                   cconv, creq, creply>>
    /\ UNCHANGED <<execVars, killVars, endpointVars, appVars, lockVars>>

\* The sidecar reads one request line and writes one response line.
SidecarReply(s) ==
    /\ is_running(s)
    /\ stdinPipe[s] # <<>>
    /\ stdoutPipe' = [stdoutPipe EXCEPT ![s] = Append(@, Head(stdinPipe[s]))]
    /\ stdinPipe' = [stdinPipe EXCEPT ![s] = Tail(@)]
    /\ UNCHANGED <<sessions, spawned, sconv, proc, stdoutLock, calls, cpc,
                   cconv, csess, creq, creply>>
    /\ UNCHANGED <<execVars, killVars, endpointVars, appVars, lockVars>>

\* The sidecar process exits on its own.
SidecarExit(s) ==
    /\ is_running(s)
    /\ proc' = [proc EXCEPT ![s] = "exited"]
    /\ UNCHANGED <<sessions, spawned, sconv, stdinPipe, stdoutPipe,
                   stdoutLock, calls, cpc, cconv, csess, creq, creply>>
    /\ UNCHANGED <<execVars, killVars, endpointVars, appVars, lockVars>>

NextBridge ==
    \/ \E c \in Callers : \E k \in ConversationIds : SendMessageBegin(c, k)
    \/ \E c \in Callers : GetLookup(c)
    \/ \E c \in Callers : GetRemoveDead(c)
    \/ \E c \in Callers : GetCreate(c)
    \/ \E c \in Callers : GetCreateFails(c)
    \/ \E c \in Callers : GetInsert(c)
    \/ \E c \in Callers : SendWrite(c)
    \/ \E c \in Callers : SendWriteFails(c)
    \/ \E c \in Callers : SendCheckAlive(c)
    \/ \E c \in Callers : SendLockStdout(c)
    \/ \E c \in Callers : SendReadLine(c)
    \/ \E c \in Callers : SendReadEof(c)
    \/ \E c \in Callers : SendTimeout(c)
    \/ \E s \in SessionIds : SidecarReply(s)
    \/ \E s \in SessionIds : SidecarExit(s)

SpecBridge == Init /\ [][NextBridge]_vars

\* ------------------------------------- BridgeManager::kill_all_processes
\*
\* Graceful shutdown runs kill_all_processes once, while chat requests may
\* still be calling send_message.

\* The conversations whose sessions earlier calls left in the table.
ShutdownConversationIds == 1..(MaxCalls - 1)

\* The manager at shutdown: each earlier call's conversation has a session
\* whose sidecar runs or has exited, or no entry; one more call can begin.
ManagerWithSessions(n) ==
    /\ InitExec
    /\ sessions \in [ShutdownConversationIds -> 0..(MaxCalls - 1)]
    /\ \A k \in ShutdownConversationIds : sessions[k] \in {0, k}
    /\ spawned = MaxCalls - 1
    /\ sconv = [s \in SessionIds |->
                  IF s \in ShutdownConversationIds /\ sessions[s] # 0
                  THEN s ELSE 0]
    /\ proc \in [SessionIds -> {"none", "running", "exited"}]
    /\ \A s \in SessionIds : proc[s] = "none" <=> sconv[s] = 0
    /\ stdinPipe = [s \in SessionIds |-> <<>>]
    /\ stdoutPipe = [s \in SessionIds |-> <<>>]
    /\ stdoutLock = [s \in SessionIds |-> 0]
    /\ calls = n
    /\ cpc = [c \in Callers |-> "idle"]
    /\ cconv = [c \in Callers |-> 0]
    /\ csess = [c \in Callers |-> 0]
    /\ creq = [c \in Callers |-> 0]
    /\ creply = [c \in Callers |-> 0]
    /\ kaPc = "idle"
    /\ kaKeys = {}
    /\ kaTable = sessions
    /\ kaCur = 0
    /\ killLog = <<>>
    /\ LocksFree

\* The manager at shutdown: one more send_message call can begin.
InitShutdown == ManagerWithSessions(MaxCalls - 1)

\* BridgeSession::kill: child.kill().await is an io::Result and `?` returns
\* its error; the handle was taken before, and a child that was not killed
\* goes on as it was.
kill_can_fail(s) == TRUE

\* Mutant of kill_all_after_kill_error: the first failed kill ends the loop.
kill_all_after_kill_error_Return == "returned"

\* kill_all_processes: a failed session.kill() is logged and the loop goes on.
kill_all_after_kill_error == "loop"

\* kill_all_processes: the write lock is taken and the keys are collected.
KillAllBegin ==
    /\ kaPc = "idle"
    /\ kaPc' = "loop"
    /\ kaKeys' = {k \in DOMAIN sessions : sessions[k] # 0}
    /\ kaTable' = sessions
    /\ UNCHANGED <<sessions, spawned, sconv, proc, stdinPipe, stdoutPipe,
                   stdoutLock, calls, cpc, cconv, csess, creq, creply,
                   kaCur, killLog>>
    /\ UNCHANGED <<execVars, endpointVars, appVars, lockVars>>

\* kill_all_processes, one iteration: the entry is removed from the table and
\* session.kill() is called on it.
KillAllRemove(k) ==
    /\ kaPc = "loop"
    /\ k \in kaKeys
    /\ kaKeys' = kaKeys \ {k}
    /\ sessions' = [sessions EXCEPT ![k] = 0]
    /\ IF sessions[k] # 0
       THEN /\ kaCur' = sessions[k]
            /\ killLog' = Append(killLog, [session |-> sessions[k],
                                           result |-> "pending"])
            /\ kaPc' = "kill"
       ELSE UNCHANGED <<kaCur, killLog, kaPc>>
    /\ UNCHANGED <<spawned, sconv, proc, stdinPipe, stdoutPipe, stdoutLock,
                   calls, cpc, cconv, csess, creq, creply, kaTable>>
    /\ UNCHANGED <<execVars, endpointVars, appVars, lockVars>>

\* BridgeSession::kill returns to kill_all_processes: the child handle was
\* taken; Ok after the child was killed and waited for, Err otherwise.
KillAllKillReturns(ok) ==
    /\ kaPc = "kill"
    /\ ok \/ kill_can_fail(kaCur)
    /\ child' = [child EXCEPT ![kaCur] = FALSE]
    /\ proc' = [proc EXCEPT ![kaCur] =
                   IF ok /\ @ = "running" THEN "killed" ELSE @]
    /\ killLog' = [killLog EXCEPT ![Len(killLog)].result =
                                      IF ok THEN "ok" ELSE "err"]
    /\ kaCur' = 0
    /\ kaPc' = IF ok THEN "loop" ELSE kill_all_after_kill_error
    /\ UNCHANGED <<sessions, spawned, sconv, stdinPipe, stdoutPipe,
                   stdoutLock, calls, cpc, cconv, csess, creq, creply,
                   kaKeys, kaTable>>
    /\ UNCHANGED <<execVars, endpointVars, appVars, tableLock, mutex, cop, ckeys,
                   cres, signalled>>

\* kill_all_processes: every collected key was visited; the function returns
\* and the write lock is released.
KillAllReturn ==
    /\ kaPc = "loop"
    /\ kaKeys = {}
    /\ kaPc' = "returned"
    /\ UNCHANGED <<sessions, spawned, sconv, proc, stdinPipe, stdoutPipe,
                   stdoutLock, calls, cpc, cconv, csess, creq, creply,
                   kaKeys, kaTable, kaCur, killLog>>
    /\ UNCHANGED <<execVars, endpointVars, appVars, lockVars>>

NextShutdown ==
    \/ \E c \in Callers : \E k \in ConversationIds : SendMessageBegin(c, k)
    \/ \E c \in Callers : GetLookup(c)
    \/ \E c \in Callers : GetRemoveDead(c)
    \/ \E c \in Callers : GetCreate(c)
    \/ \E c \in Callers : GetCreateFails(c)
    \/ \E c \in Callers : GetInsert(c)
    \/ \E c \in Callers : SendWrite(c)
    \/ \E c \in Callers : SendWriteFails(c)
    \/ \E c \in Callers : SendCheckAlive(c)
    \/ \E c \in Callers : SendLockStdout(c)
    \/ \E c \in Callers : SendReadLine(c)
    \/ \E c \in Callers : SendReadEof(c)
    \/ \E c \in Callers : SendTimeout(c)
    \/ \E s \in SessionIds : SidecarReply(s)
    \/ \E s \in SessionIds : SidecarExit(s)
    \/ KillAllBegin
    \/ \E k \in ShutdownConversationIds : KillAllRemove(k)
    \/ \E ok \in BOOLEAN : KillAllKillReturns(ok)
    \/ KillAllReturn

SpecShutdown == InitShutdown /\ [][NextShutdown]_vars

\* ======================================== HTTP handlers: input validation
\*
\* POST /api/orchestrate checks the goal's length before it returns the SSE
\* stream; POST /api/config validates and applies a ConfigUpdateRequest to
\* OrchestratorConfig::default().

OptionOf(S) == {None} \cup {Some(v) : v \in S}

Unwrap(o) == CHOOSE v \in o : TRUE

\* ConfigUpdateRequest: four optional fields.
ConfigUpdateRequests ==
    [max_parallel_tasks : OptionOf(0..MaxConfigValue),
     gemini_model : OptionOf({"", "gemini-2.5-pro"}),
     max_goal_length : OptionOf(0..MaxConfigValue),
     plan_timeout_secs : OptionOf(0..MaxConfigValue)]

\* request.goal.len(): empty, at the limit, one past it.
GoalLengths == {0, DefaultMaxGoalLength, DefaultMaxGoalLength + 1}

HttpRequests ==
    {[route |-> "orchestrate", goal_len |-> n] : n \in GoalLengths}
    \cup {[route |-> "config", update |-> u] : u \in ConfigUpdateRequests}

\* A handler is about to be called with a request; nothing has run.
InitEndpoints ==
    /\ InitApp
    /\ pc = "request"
    /\ plan = <<>>
    /\ idx = 0
    /\ plan_timeout_secs = DefaultPlanTimeoutSecs
    /\ InitIdle
    /\ InitBridge
    /\ httpRequest \in HttpRequests
    /\ httpResponse = NoResponse

\* impl IntoResponse for AppError: the HTTP status of an error kind.
status_code(kind) ==
    CASE kind \in {"InvalidAgentConfig", "InvalidPath", "NotADirectory",
                   "InvalidPlan"} -> 400
      [] kind = "PermissionDenied" -> 403
      [] kind \in {"AgentNotFound", "FileNotFound"} -> 404
      [] kind = "Timeout" -> 408
      [] OTHER -> 500

\* The response a handler's Err(AppError) becomes.
ErrorResponse(kind, message) ==
    [status |-> status_code(kind), kind |-> kind, message |-> message,
     config |-> None]

\* The AppError the goal-length check returns: AppError::Internal(anyhow!(..)).
goal_too_long_error == "Internal"

\* The AppError validate_and_apply_config_update returns.
config_update_error == "Internal"

\* Mutant of rejects_integer: no integer is rejected.
rejects_integer_Never(v) == FALSE

\* validate_and_apply_config_update: the check of a supplied integer field.
rejects_integer(v) == v = 0

\* validate_and_apply_config_update: the check of a supplied gemini_model.
rejects_model(m) == m = ""

ConfigOk(config) ==
    [ok |-> TRUE, kind |-> "none", message |-> "", config |-> config]

ConfigErr(message) ==
    [ok |-> FALSE, kind |-> config_update_error, message |-> message,
     config |-> DefaultConfig]

\* validate_and_apply_config_update: the fields are validated and applied
\* one after the other, in the order max_parallel_tasks, gemini_model,
\* max_goal_length, plan_timeout_secs; the first rejected one returns.
validate_and_apply_config_update(config, request) ==
    IF request.max_parallel_tasks # None
       /\ rejects_integer(Unwrap(request.max_parallel_tasks))
    THEN ConfigErr("max_parallel_tasks must be > 0")
    ELSE LET c1 == IF request.max_parallel_tasks # None
                   THEN [config EXCEPT !.max_parallel_tasks =
                                           Unwrap(request.max_parallel_tasks)]
                   ELSE config IN
    IF request.gemini_model # None /\ rejects_model(Unwrap(request.gemini_model))
    THEN ConfigErr("gemini_model cannot be empty")
    ELSE LET c2 == IF request.gemini_model # None
                   THEN [c1 EXCEPT !.gemini_model = Unwrap(request.gemini_model)]
                   ELSE c1 IN
    IF request.max_goal_length # None
       /\ rejects_integer(Unwrap(request.max_goal_length))
    THEN ConfigErr("max_goal_length must be > 0")
    ELSE LET c3 == IF request.max_goal_length # None
                   THEN [c2 EXCEPT !.max_goal_length =
                                       Unwrap(request.max_goal_length)]
                   ELSE c2 IN
    IF request.plan_timeout_secs # None
       /\ rejects_integer(Unwrap(request.plan_timeout_secs))
    THEN ConfigErr("plan_timeout_secs must be > 0")
    ELSE ConfigOk(IF request.plan_timeout_secs # None
                  THEN [c3 EXCEPT !.plan_timeout_secs =
                                      Unwrap(request.plan_timeout_secs)]
                  ELSE c3)

\* orchestrate, up to its return: a goal longer than
\* OrchestratorConfig::default().max_goal_length is an Err; otherwise the
\* SSE stream is returned, to be polled afterwards.
Orchestrate ==
    /\ pc = "request"
    /\ httpRequest.route = "orchestrate"
    /\ IF httpRequest.goal_len > DefaultConfig.max_goal_length
       THEN /\ httpResponse' = ErrorResponse(goal_too_long_error, "Goal too long")
            /\ pc' = "rejected"
       ELSE /\ httpResponse' = [NoResponse EXCEPT !.status = 200]
            /\ pc' = "open"
    /\ UNCHANGED <<attempts, plannerCalls, plannerError, plan, idx, frames,
                   execUnchanged>>
    /\ UNCHANGED <<bridgeVars, httpRequest, appVars>>

\* update_config: validate_and_apply_config_update on the default config;
\* the updated config is the body of the Ok response.
UpdateConfig ==
    /\ pc = "request"
    /\ httpRequest.route = "config"
    /\ LET r == validate_and_apply_config_update(DefaultConfig,
                                                 httpRequest.update) IN
         httpResponse' = IF r.ok
                         THEN [status |-> 200, kind |-> "none", message |-> "",
                               config |-> Some(r.config)]
                         ELSE ErrorResponse(r.kind, r.message)
    /\ pc' = "responded"
    /\ UNCHANGED <<attempts, plannerCalls, plannerError, plan, idx, frames,
                   execUnchanged>>
    /\ UNCHANGED <<bridgeVars, httpRequest, appVars>>

NextEndpoints ==
    \/ Orchestrate
    \/ UpdateConfig

SpecEndpoints == InitEndpoints /\ [][NextEndpoints]_vars

\* ============================== bridge manager and session: the locks
\*
\* The same operations with every lock acquisition as a step of its own:
\* callers run send_message, kill_process and kill_all_processes on the
\* manager and kill and is_running on a session whose Arc they hold.  A
\* guard is held from the step that takes it to the step that drops it.

\* The operations a caller can call.
Operations == {"send_message", "kill_process", "kill_all_processes",
               "kill", "is_running"}

\* The manager before the calls: the conversation has no session, or one
\* that an earlier call created and whose sidecar runs or has exited.
InitLocks ==
    /\ InitExec
    /\ spawned \in {0, 1}
    /\ sessions = [k \in ConversationIds |-> spawned]
    /\ sconv = [s \in SessionIds |-> IF s <= spawned THEN 1 ELSE 0]
    /\ proc \in [SessionIds -> {"none", "running", "exited"}]
    /\ \A s \in SessionIds : proc[s] = "none" <=> s > spawned
    /\ stdinPipe = [s \in SessionIds |-> <<>>]
    /\ stdoutPipe = [s \in SessionIds |-> <<>>]
    /\ stdoutLock = [s \in SessionIds |-> 0]
    /\ calls = spawned
    /\ cpc = [c \in Callers |-> "idle"]
    /\ cconv = [c \in Callers |-> 0]
    /\ csess = [c \in Callers |-> 0]
    /\ creq = [c \in Callers |-> 0]
    /\ creply = [c \in Callers |-> 0]
    /\ kaPc = "idle"
    /\ kaKeys = {}
    /\ kaTable = sessions
    /\ kaCur = 0
    /\ killLog = <<>>
    /\ LocksFree

\* What no step of these operations changes.
lockUnchanged == <<execVars, endpointVars, appVars, killVars, stdinPipe, stdoutPipe,
                   stdoutLock, creq, creply, sconv>>

\* sessions.read().await can complete: no writer holds the RwLock.
ReadFree == tableLock.writer = 0

\* sessions.write().await can complete: no reader and no writer holds it.
WriteFree == tableLock.writer = 0 /\ tableLock.readers = {}

\* Every Mutex guard caller c holds is dropped.
ReleaseAll(mx, c) ==
    [s \in SessionIds |->
        [l \in MutexNames |-> IF mx[s][l] = c THEN 0 ELSE mx[s][l]]]

\* try_wait() on the handle in the Mutex reports an exit status.
try_wait_exited(s) == child[s] /\ proc[s] # "running"

\* Mutant of is_running_child: the process is asked, not the handle.
is_running_child_Process(s) == proc[s] = "running"

\* BridgeSession::is_running with the child handle: present and no exit
\* status.
is_running_child(s) == child[s] /\ proc[s] = "running"

\* Mutant of read_guard_dropped: the read guard is still held when
\* sessions.write() is awaited.
read_guard_dropped_Kept(c) == {}

\* get_or_create_session: drop(sessions) before self.sessions.write().await;
\* the readers that leave the RwLock.
read_guard_dropped(c) == {c}

\* A call returns res: the caller's Arc is dropped with everything else.
LkReturn(c, res, p, table) ==
    /\ cpc' = [cpc EXCEPT ![c] = "idle"]
    /\ cres' = [cres EXCEPT ![c] = res]
    /\ csess' = [csess EXCEPT ![c] = 0]
    /\ proc' = Drop(p, table, csess')

\* A caller calls an operation; kill and is_running are called on the
\* session of the table, whose Arc the caller holds.
LkCall(c, op, k) ==
    /\ cpc[c] = "idle"
    /\ calls < MaxCalls
    /\ op \in {"kill", "is_running"} => sessions[k] # 0
    /\ calls' = calls + 1
    /\ cop' = [cop EXCEPT ![c] = op]
    /\ cconv' = [cconv EXCEPT ![c] = k]
    /\ cres' = [cres EXCEPT ![c] = "none"]
    /\ csess' = [csess EXCEPT ![c] = IF op \in {"kill", "is_running"}
                                     THEN sessions[k] ELSE 0]
    /\ cpc' = [cpc EXCEPT ![c] =
                 CASE op = "send_message" -> "goc_read"
                   [] op = "kill_process" -> "kp_write"
                   [] op = "kill_all_processes" -> "ka_write"
                   [] op = "kill" -> "kill_child"
                   [] op = "is_running" -> "ir_child"]
    /\ UNCHANGED <<sessions, spawned, proc, tableLock, mutex, child, ckeys,
                   signalled>>
    /\ UNCHANGED lockUnchanged

\* get_or_create_session: self.sessions.read().await and sessions.get; with
\* no entry the block ends and the guard is dropped.
LkGocRead(c) ==
    /\ cpc[c] = "goc_read"
    /\ ReadFree
    /\ IF sessions[cconv[c]] # 0
       THEN /\ tableLock' = [tableLock EXCEPT !.readers = @ \cup {c}]
            /\ cpc' = [cpc EXCEPT ![c] = "goc_is_running"]
       ELSE /\ cpc' = [cpc EXCEPT ![c] = "goc_new"]
            /\ UNCHANGED tableLock
    /\ UNCHANGED <<sessions, spawned, proc, calls, cconv, csess, mutex, child,
                   cop, ckeys, cres, signalled>>
    /\ UNCHANGED lockUnchanged

\* get_or_create_session: session.is_running().await under the read guard;
\* a running session is returned, for a dead one the read guard is dropped.
LkGocIsRunning(c) ==
    /\ cpc[c] = "goc_is_running"
    /\ mutex[sessions[cconv[c]]]["child"] = 0
    /\ IF is_running_child(sessions[cconv[c]])
       THEN /\ csess' = [csess EXCEPT ![c] = sessions[cconv[c]]]
            /\ tableLock' = [tableLock EXCEPT !.readers = @ \ {c}]
            /\ cpc' = [cpc EXCEPT ![c] = "send_stdin"]
       ELSE /\ tableLock' = [tableLock EXCEPT
                                !.readers = @ \ read_guard_dropped(c)]
            /\ cpc' = [cpc EXCEPT ![c] = "goc_write"]
            /\ UNCHANGED csess
    /\ UNCHANGED <<sessions, spawned, proc, calls, cconv, mutex, child, cop,
                   ckeys, cres, signalled>>
    /\ UNCHANGED lockUnchanged

\* get_or_create_session: self.sessions.write().await, sessions.remove; the
\* guards are dropped at the end of the block.
LkGocWrite(c) ==
    /\ cpc[c] = "goc_write"
    /\ WriteFree
    /\ sessions' = [sessions EXCEPT ![cconv[c]] = 0]
    /\ proc' = Drop(proc, sessions', csess)
    /\ cpc' = [cpc EXCEPT ![c] = "goc_new"]
    /\ UNCHANGED <<spawned, calls, cconv, csess, tableLock, mutex, child, cop,
                   ckeys, cres, signalled>>
    /\ UNCHANGED lockUnchanged

\* get_or_create_session: BridgeSession::new, no lock held.
LkGocNew(c) ==
    /\ cpc[c] = "goc_new"
    /\ spawned' = spawned + 1
    /\ proc' = [proc EXCEPT ![spawned + 1] = "running"]
    /\ child' = [child EXCEPT ![spawned + 1] = TRUE]
    /\ csess' = [csess EXCEPT ![c] = spawned + 1]
    /\ cpc' = [cpc EXCEPT ![c] = "goc_insert"]
    /\ UNCHANGED <<sessions, calls, cconv, tableLock, mutex, cop, ckeys, cres,
                   signalled>>
    /\ UNCHANGED lockUnchanged

\* get_or_create_session: BridgeSession::new fails, `?` returns the error.
LkGocNewFails(c) ==
    /\ cpc[c] = "goc_new"
    /\ LkReturn(c, "err", proc, sessions)
    /\ UNCHANGED <<sessions, spawned, calls, cconv, tableLock, mutex, child,
                   cop, ckeys, signalled>>
    /\ UNCHANGED lockUnchanged

\* get_or_create_session: self.sessions.write().await, sessions.insert.
LkGocInsert(c) ==
    /\ cpc[c] = "goc_insert"
    /\ WriteFree
    /\ sessions' = [sessions EXCEPT ![cconv[c]] = csess[c]]
    /\ proc' = Drop(proc, sessions', csess)
    /\ cpc' = [cpc EXCEPT ![c] = "send_stdin"]
    /\ UNCHANGED <<spawned, calls, cconv, csess, tableLock, mutex, child, cop,
                   ckeys, cres, signalled>>
    /\ UNCHANGED lockUnchanged

\* send_message: self.stdin.lock().await.
LkSendStdin(c) ==
    /\ cpc[c] = "send_stdin"
    /\ mutex[csess[c]]["stdin"] = 0
    /\ mutex' = [mutex EXCEPT ![csess[c]]["stdin"] = c]
    /\ cpc' = [cpc EXCEPT ![c] = "send_write"]
    /\ UNCHANGED <<sessions, spawned, proc, calls, cconv, csess, tableLock,
                   child, cop, ckeys, cres, signalled>>
    /\ UNCHANGED lockUnchanged

\* send_message: write_all and flush under the stdin guard, which the end of
\* the block or the `?` of a failed write drops; a write to a sidecar that is
\* gone fails.
LkSendWrite(c, ok) ==
    /\ cpc[c] = "send_write"
    /\ ok <=> proc[csess[c]] = "running"
    /\ mutex' = [mutex EXCEPT ![csess[c]]["stdin"] = 0]
    /\ IF ok
       THEN /\ cpc' = [cpc EXCEPT ![c] = "send_child"]
            /\ UNCHANGED <<cres, csess, proc>>
       ELSE LkReturn(c, "err", proc, sessions)
    /\ UNCHANGED <<sessions, spawned, calls, cconv, tableLock, child, cop,
                   ckeys, signalled>>
    /\ UNCHANGED lockUnchanged

\* send_message: self.child.lock().await and try_wait before reading; the
\* guard is dropped at the end of the block unless the sidecar has exited.
LkSendChild(c) ==
    /\ cpc[c] = "send_child"
    /\ mutex[csess[c]]["child"] = 0
    /\ IF try_wait_exited(csess[c])
       THEN /\ mutex' = [mutex EXCEPT ![csess[c]]["child"] = c]
            /\ cpc' = [cpc EXCEPT ![c] = "send_stderr"]
       ELSE /\ cpc' = [cpc EXCEPT ![c] = "send_stdout"]
            /\ UNCHANGED mutex
    /\ UNCHANGED <<sessions, spawned, proc, calls, cconv, csess, tableLock,
                   child, cop, ckeys, cres, signalled>>
    /\ UNCHANGED lockUnchanged

\* send_message: self.stderr.lock().await.take() under the child guard (and
\* the stdout guard on the EOF path), the stderr task is awaited and the
\* error returned; every guard is dropped.
LkSendStderr(c) ==
    /\ cpc[c] = "send_stderr"
    /\ mutex[csess[c]]["stderr"] = 0
    /\ mutex' = ReleaseAll(mutex, c)
    /\ LkReturn(c, "err", proc, sessions)
    /\ UNCHANGED <<sessions, spawned, calls, cconv, tableLock, child, cop,
                   ckeys, signalled>>
    /\ UNCHANGED lockUnchanged

\* send_message: self.stdout.lock().await.
LkSendStdout(c) ==
    /\ cpc[c] = "send_stdout"
    /\ mutex[csess[c]]["stdout"] = 0
    /\ mutex' = [mutex EXCEPT ![csess[c]]["stdout"] = c]
    /\ cpc' = [cpc EXCEPT ![c] = "send_read"]
    /\ UNCHANGED <<sessions, spawned, proc, calls, cconv, csess, tableLock,
                   child, cop, ckeys, cres, signalled>>
    /\ UNCHANGED lockUnchanged

\* send_message: read_line under the stdout guard returns a line, and the
\* response is returned.
LkSendReadLine(c) ==
    /\ cpc[c] = "send_read"
    /\ mutex' = ReleaseAll(mutex, c)
    /\ LkReturn(c, "ok", proc, sessions)
    /\ UNCHANGED <<sessions, spawned, calls, cconv, tableLock, child, cop,
                   ckeys, signalled>>
    /\ UNCHANGED lockUnchanged

\* send_message: read_line returns 0 bytes, the sidecar's stdout is closed.
LkSendReadEof(c) ==
    /\ cpc[c] = "send_read"
    /\ proc[csess[c]] # "running"
    /\ cpc' = [cpc EXCEPT ![c] = "send_eof_child"]
    /\ UNCHANGED <<sessions, spawned, proc, calls, cconv, csess, tableLock,
                   mutex, child, cop, ckeys, cres, signalled>>
    /\ UNCHANGED lockUnchanged

\* send_message, EOF: self.child.lock().await under the stdout guard; with
\* an exit status the stderr is read, otherwise the EOF error is returned.
LkSendEofChild(c) ==
    /\ cpc[c] = "send_eof_child"
    /\ mutex[csess[c]]["child"] = 0
    /\ IF try_wait_exited(csess[c])
       THEN /\ mutex' = [mutex EXCEPT ![csess[c]]["child"] = c]
            /\ cpc' = [cpc EXCEPT ![c] = "send_stderr"]
            /\ UNCHANGED <<cres, csess, proc>>
       ELSE /\ mutex' = ReleaseAll(mutex, c)
            /\ LkReturn(c, "err", proc, sessions)
    /\ UNCHANGED <<sessions, spawned, calls, cconv, tableLock, child, cop,
                   ckeys, signalled>>
    /\ UNCHANGED lockUnchanged

\* send_message: the 120 s timeout elapses; the future inside it is dropped
\* with the guards it holds.
LkSendTimeout(c) ==
    /\ cpc[c] \in {"send_child", "send_stderr", "send_stdout", "send_read",
                   "send_eof_child"}
    /\ mutex' = ReleaseAll(mutex, c)
    /\ LkReturn(c, "err", proc, sessions)
    /\ UNCHANGED <<sessions, spawned, calls, cconv, tableLock, child, cop,
                   ckeys, signalled>>
    /\ UNCHANGED lockUnchanged

\* BridgeSession::is_running: self.child.lock().await, try_wait, the guard
\* is dropped at the return.
LkIsRunning(c) ==
    /\ cpc[c] = "ir_child"
    /\ mutex[csess[c]]["child"] = 0
    /\ LkReturn(c, IF is_running_child(csess[c]) THEN "true" ELSE "false",
                proc, sessions)
    /\ UNCHANGED <<sessions, spawned, calls, cconv, tableLock, mutex, child,
                   cop, ckeys, signalled>>
    /\ UNCHANGED lockUnchanged

\* BridgeSession::kill: self.child.lock().await and child_guard.take(); with
\* no handle left Ok is returned at once.
LkKillChild(c) ==
    /\ cpc[c] = "kill_child"
    /\ mutex[csess[c]]["child"] = 0
    /\ IF child[csess[c]]
       THEN /\ mutex' = [mutex EXCEPT ![csess[c]]["child"] = c]
            /\ child' = [child EXCEPT ![csess[c]] = FALSE]
            /\ cpc' = [cpc EXCEPT ![c] = "kill_wait"]
            /\ UNCHANGED cres
       ELSE /\ cpc' = [cpc EXCEPT ![c] = "kill_returned"]
            /\ cres' = [cres EXCEPT ![c] = "ok"]
            /\ UNCHANGED <<mutex, child>>
    /\ UNCHANGED <<sessions, spawned, proc, calls, cconv, csess, tableLock,
                   cop, ckeys, signalled>>
    /\ UNCHANGED lockUnchanged

\* BridgeSession::kill: child.kill().await and child.wait().await under the
\* child guard; the guard is dropped at the return, Ok or Err.
LkKillWait(c, ok) ==
    /\ cpc[c] = "kill_wait"
    /\ ok \/ kill_can_fail(csess[c])
    /\ signalled' = [signalled EXCEPT ![csess[c]] = @ + 1]
    /\ proc' = [proc EXCEPT ![csess[c]] =
                   IF ok /\ @ = "running" THEN "killed" ELSE @]
    /\ mutex' = [mutex EXCEPT ![csess[c]]["child"] = 0]
    /\ cres' = [cres EXCEPT ![c] = IF ok THEN "ok" ELSE "err"]
    /\ cpc' = [cpc EXCEPT ![c] = "kill_returned"]
    /\ UNCHANGED <<sessions, spawned, calls, cconv, csess, tableLock, child,
                   cop, ckeys>>
    /\ UNCHANGED lockUnchanged

\* session.kill() has returned to its caller: a direct caller is done;
\* kill_process returns, Ok or by `?`, dropping the write guard;
\* kill_all_processes goes on with its loop.
LkKillReturned(c) ==
    /\ cpc[c] = "kill_returned"
    /\ IF cop[c] = "kill_all_processes"
       THEN /\ cpc' = [cpc EXCEPT ![c] = "ka_loop"]
            /\ csess' = [csess EXCEPT ![c] = 0]
            /\ proc' = Drop(proc, sessions, csess')
            /\ UNCHANGED <<cres, tableLock>>
       ELSE /\ LkReturn(c, cres[c], proc, sessions)
            /\ tableLock' = [tableLock EXCEPT
                                !.writer = IF @ = c THEN 0 ELSE @]
    /\ UNCHANGED <<sessions, spawned, calls, cconv, mutex, child, cop, ckeys,
                   signalled>>
    /\ UNCHANGED lockUnchanged

\* Mutant of removed_by_kill_process: the whole table is cleared.
removed_by_kill_process_All(table, k) == [j \in DOMAIN table |-> 0]

\* kill_process: sessions.remove(conversation_id), the table afterwards.
removed_by_kill_process(table, k) == [table EXCEPT ![k] = 0]

\* kill_process: self.sessions.write().await and sessions.remove; with no
\* entry Ok is returned.
LkKillProcess(c) ==
    /\ cpc[c] = "kp_write"
    /\ WriteFree
    /\ IF sessions[cconv[c]] # 0
       THEN /\ tableLock' = [tableLock EXCEPT !.writer = c]
            /\ sessions' = removed_by_kill_process(sessions, cconv[c])
            /\ csess' = [csess EXCEPT ![c] = sessions[cconv[c]]]
            /\ cpc' = [cpc EXCEPT ![c] = "kill_child"]
            /\ UNCHANGED <<cres, proc>>
       ELSE /\ LkReturn(c, "ok", proc, sessions)
            /\ UNCHANGED <<tableLock, sessions>>
    /\ UNCHANGED <<spawned, calls, cconv, mutex, child, cop, ckeys, signalled>>
    /\ UNCHANGED lockUnchanged

\* kill_all_processes: self.sessions.write().await and the keys collected.
LkKillAll(c) ==
    /\ cpc[c] = "ka_write"
    /\ WriteFree
    /\ tableLock' = [tableLock EXCEPT !.writer = c]
    /\ ckeys' = [ckeys EXCEPT ![c] = {k \in DOMAIN sessions : sessions[k] # 0}]
    /\ cpc' = [cpc EXCEPT ![c] = "ka_loop"]
    /\ UNCHANGED <<sessions, spawned, proc, calls, cconv, csess, mutex, child,
                   cop, cres, signalled>>
    /\ UNCHANGED lockUnchanged

\* kill_all_processes: the next key's entry is removed and killed; after the
\* last the function returns and the write guard is dropped.
LkKillAllLoop(c) ==
    /\ cpc[c] = "ka_loop"
    /\ IF ckeys[c] = {}
       THEN /\ tableLock' = [tableLock EXCEPT !.writer = 0]
            /\ LkReturn(c, "ok", proc, sessions)
            /\ UNCHANGED <<sessions, ckeys>>
       ELSE \E k \in ckeys[c] :
              /\ ckeys' = [ckeys EXCEPT ![c] = @ \ {k}]
              /\ sessions' = [sessions EXCEPT ![k] = 0]
              /\ csess' = [csess EXCEPT ![c] = sessions[k]]
              /\ cpc' = [cpc EXCEPT ![c] = "kill_child"]
              /\ UNCHANGED <<tableLock, cres, proc>>
    /\ UNCHANGED <<spawned, calls, cconv, mutex, child, cop, signalled>>
    /\ UNCHANGED lockUnchanged

\* The sidecar process of a session exits on its own.
LkSidecarExit(s) ==
    /\ proc[s] = "running"
    /\ proc' = [proc EXCEPT ![s] = "exited"]
    /\ UNCHANGED <<sessions, spawned, calls, cpc, cconv, csess, tableLock,
                   mutex, child, cop, ckeys, cres, signalled>>
    /\ UNCHANGED lockUnchanged

\* The steps of caller c's call.
LkCallerStep(c) ==
    \/ LkGocRead(c)
    \/ LkGocIsRunning(c)
    \/ LkGocWrite(c)
    \/ LkGocNew(c)
    \/ LkGocNewFails(c)
    \/ LkGocInsert(c)
    \/ LkSendStdin(c)
    \/ \E ok \in BOOLEAN : LkSendWrite(c, ok)
    \/ LkSendChild(c)
    \/ LkSendStderr(c)
    \/ LkSendStdout(c)
    \/ LkSendReadLine(c)
    \/ LkSendReadEof(c)
    \/ LkSendEofChild(c)
    \/ LkSendTimeout(c)
    \/ LkIsRunning(c)
    \/ LkKillChild(c)
    \/ \E ok \in BOOLEAN : LkKillWait(c, ok)
    \/ LkKillReturned(c)
    \/ LkKillProcess(c)
    \/ LkKillAll(c)
    \/ LkKillAllLoop(c)

NextLocks ==
    \/ \E c \in Callers : \E op \in Operations : \E k \in ConversationIds :
           LkCall(c, op, k)
    \/ \E c \in Callers : LkCallerStep(c)
    \/ \E s \in SessionIds : LkSidecarExit(s)

\* kill_process and kill_all_processes called, concurrently, on a manager
\* whose table holds the sessions of several conversations.
InitKillProcess == ManagerWithSessions(0)

NextKillProcess ==
    \/ \E c \in Callers : \E k \in ShutdownConversationIds :
           \E op \in {"kill_process", "kill_all_processes"} : LkCall(c, op, k)
    \/ \E c \in Callers : LkKillProcess(c)
    \/ \E c \in Callers : LkKillAll(c)
    \/ \E c \in Callers : LkKillAllLoop(c)
    \/ \E c \in Callers : LkKillChild(c)
    \/ \E c \in Callers : \E ok \in BOOLEAN : LkKillWait(c, ok)
    \/ \E c \in Callers : LkKillReturned(c)
    \/ \E s \in SessionIds : LkSidecarExit(s)

SpecKillProcess == InitKillProcess /\ [][NextKillProcess]_vars

\* The tokio runtime polls every task that can make progress: each caller's
\* call is scheduled fairly.
SpecLocks ==
    InitLocks /\ [][NextLocks]_vars
    /\ \A c \in Callers : WF_vars(LkCallerStep(c))

\* ===================================================== application state
\*
\* Several requests execute plans at the same time on the one AppState
\* (Arc<RwLock<AppState>>), while POST /api/files/working-directory sets or
\* clears the working directory. Every block of code that holds the
\* RwLock is one action.

\* The directories a client can set.
Dirs == {"a", "b"}

\* The plans of the concurrent executions: a chain of tasks, each step
\* depending on the one before it; a create_file step after the first
\* takes its content from the step before it.
ChainPlans == UNION {[1..n -> {"run_gemini", "create_file"}] : n \in 1..MaxInputSteps}

\* Context keys: 0 is "working_dir", i is "<step i>.output".
WORKING_DIR_KEY == 0

\* Context::set: the entry of the key is replaced; an entry carries the
\* execution that set it and, for "working_dir", the directory.
context_set(entries, key, by, dir) ==
    {x \in entries : x.key # key} \cup {[key |-> key, by |-> by, dir |-> dir]}

\* Context::get: the entry of the key, as an Option.
context_get(entries, key) == {x \in entries : x.key = key}

\* Mutant of session_context: every execution's session uses one Context.
session_context_Shared(e) == 1

\* execute_plan_inner: Session::new_from_task under a fresh Uuid, stored in
\* an InMemorySessionStorage of its own: the Context of execution e.
session_context(e) == e

\* The Gemini agents of the registry.
GeminiAgents == {a \in agents : a.agent_type = "Gemini"}

\* Where the run goes after a task: the next step, or the end of the plan.
Advance(r) ==
    [r EXCEPT !.next = @ + 1,
              !.pc = IF r.next = Len(r.plan) THEN "done" ELSE "ready"]

\* execute_plan_inner up to the run loop: the working directory is read
\* from the AppState and, when it is Some, set in the session's context.
ExecStart(e, p) ==
    /\ runs[e].pc = "idle"
    /\ runs' = [runs EXCEPT ![e] =
                   [IdleRun EXCEPT !.pc = "ready", !.plan = p, !.next = 1,
                                   !.ctx = session_context(e),
                                   !.startWd = working_directory]]
    /\ contexts' = [contexts EXCEPT ![session_context(e)] =
                       IF working_directory = None THEN @
                       ELSE context_set(@, WORKING_DIR_KEY, e,
                                        Unwrap(working_directory))]
    /\ UNCHANGED <<working_directory, agents, elapsed, serializeFails>>
    /\ UNCHANGED <<execVars, bridgeVars, endpointVars>>

\* CreateFileTask::run: the working directory from the context, else from
\* the AppState; the content from the context; the file is written and
\* the output key set.
CreateFileRun(e) ==
    LET r == runs[e]
        wd == context_get(contexts[r.ctx], WORKING_DIR_KEY)
        content == IF r.next > 1 THEN context_get(contexts[r.ctx], r.next - 1)
                   ELSE {}
        dir == IF wd # {} THEN Some(Unwrap(wd).dir) ELSE working_directory
    IN  /\ r.pc = "ready"
        /\ r.plan[r.next] = "create_file"
        /\ runs' = [runs EXCEPT ![e] =
                       Advance([r EXCEPT !.reads = @ \cup wd \cup content,
                                         !.writes = @ \cup {[step |-> r.next,
                                                             dir |-> dir]}])]
        /\ contexts' = [contexts EXCEPT ![r.ctx] = context_set(@, r.next, e, "")]
        /\ UNCHANGED <<working_directory, agents, elapsed, serializeFails>>
        /\ UNCHANGED <<execVars, bridgeVars, endpointVars>>

\* RunGeminiTask::run calls internal_run_gemini, which calls
\* find_or_create_gemini_agent: under the read lock, the registry is
\* searched for a Gemini agent.
FindRead(e) ==
    /\ runs[e].pc = "ready"
    /\ runs[e].plan[runs[e].next] = "run_gemini"
    /\ IF GeminiAgents # {}
       THEN \E a \in GeminiAgents :
                runs' = [runs EXCEPT ![e].pc = "find_apply",
                                     ![e].received = @ \cup {a.id}]
       ELSE runs' = [runs EXCEPT ![e].pc = "find_create"]
    /\ UNCHANGED <<working_directory, agents, contexts, elapsed, serializeFails>>
    /\ UNCHANGED <<execVars, bridgeVars, endpointVars>>

\* find_or_create_gemini_agent, an agent was found: the lock is taken for
\* read again to apply the working directory to the copy, which is returned.
FindApply(e) ==
    /\ runs[e].pc = "find_apply"
    /\ runs' = [runs EXCEPT ![e].pc = "gemini"]
    /\ UNCHANGED <<working_directory, agents, contexts, elapsed, serializeFails>>
    /\ UNCHANGED <<execVars, bridgeVars, endpointVars>>

\* find_or_create_gemini_agent, no agent was found: the read guard was
\* dropped; under the write lock an agent with a fresh Uuid is added by
\* add_agent and returned.
FindCreate(e) ==
    LET id == Cardinality(agents) + 1
    IN  /\ runs[e].pc = "find_create"
        /\ agents' = agents \cup {[id |-> id, agent_type |-> "Gemini"]}
        /\ runs' = [runs EXCEPT ![e].pc = "gemini",
                                ![e].received = @ \cup {id}]
        /\ UNCHANGED <<working_directory, contexts, elapsed, serializeFails>>
        /\ UNCHANGED <<execVars, bridgeVars, endpointVars>>

\* RunGeminiTask::run after internal_run_gemini returned Ok: the output key
\* is set.
GeminiDone(e) ==
    /\ runs[e].pc = "gemini"
    /\ runs' = [runs EXCEPT ![e] = Advance(@)]
    /\ contexts' = [contexts EXCEPT ![runs[e].ctx] =
                       context_set(@, runs[e].next, e, "")]
    /\ UNCHANGED <<working_directory, agents, elapsed, serializeFails>>
    /\ UNCHANGED <<execVars, bridgeVars, endpointVars>>

\* POST /api/files/working-directory: the path of the request, or None,
\* replaces the working directory under the write lock.
SetWorkingDirectory(path) ==
    /\ working_directory' = path
    /\ UNCHANGED <<agents, runs, contexts, elapsed, serializeFails>>
    /\ UNCHANGED <<execVars, bridgeVars, endpointVars>>

NextAppState ==
    \/ \E e \in Executions : \E p \in ChainPlans : ExecStart(e, p)
    \/ \E e \in Executions : CreateFileRun(e)
    \/ \E e \in Executions : FindRead(e)
    \/ \E e \in Executions : FindApply(e)
    \/ \E e \in Executions : FindCreate(e)
    \/ \E e \in Executions : GeminiDone(e)
    \/ \E path \in OptionOf(Dirs) : SetWorkingDirectory(path)

SpecAppState == Init /\ [][NextAppState]_vars

\* ===================================================== claims, Spec

Running == {s \in DOMAIN taskState : taskState[s] = "running"}

FramePos(type) == {i \in DOMAIN frames : frames[i].type = type}

\* C1: within one execution a task's run does not begin until every step in
\* its dependencies has written its output key: every started run found
\* all of its step's dependencies in the context.
C1_DependenciesWrittenBeforeStart ==
    \A i \in DOMAIN startLog :
        plan[startLog[i].task].dependencies \subseteq startLog[i].context

C3_NoStartAfterError ==
    [][(\E s \in DOMAIN taskState : taskState[s] = "failed")
          => startLog' = startLog]_vars

\* C3 witness: the execution ended on a task's error while a step whose
\* dependencies were all written had not been started.
C3_Witness ==
    /\ result = "TaskExecutionFailed"
    /\ \E s \in DOMAIN taskState : taskState[s] = "failed"
    /\ \E s \in DOMAIN taskState :
           /\ taskState[s] = "pending"
           /\ plan[s].dependencies \subseteq context

\* C4: execute_plan reports success if and only if every declared step's
\* output key is in the final context.
C4_SuccessIffAllOutputs ==
    (xstate = "returned" /\ result # "none")
        => (result = "Ok" <=> StepIds(plan) \subseteq context)

\* C7: each output key is written at most once, and only by the task whose
\* step id it names; no task runs twice.
C7_OutputWrittenOnceByOwner ==
    /\ \A i \in DOMAIN setCalls : setCalls[i][2] = setCalls[i][1]
    /\ \A i, j \in DOMAIN setCalls : setCalls[i][2] = setCalls[j][2] => i = j
    /\ \A i, j \in DOMAIN startLog : startLog[i].task = startLog[j].task => i = j

\* C7 witness: an execution in which two tasks ran and each wrote its key.
C7_Witness ==
    /\ Len(setCalls) >= 2
    /\ xstate = "returned"

\* C8: whenever a step_error frame is sent, an execution_error frame is
\* sent after it and before [DONE].
C8_StepErrorThenExecutionError ==
    \A d \in FramePos("[DONE]") : \A i \in FramePos("step_error") :
        \E j \in FramePos("execution_error") : i < j /\ j < d

\* C9: the stream sends [DONE] exactly once, as its last frame, on every
\* path: it cannot stop before, and nothing follows it.
C9_EndsWithDoneOnce ==
    /\ Cardinality(FramePos("[DONE]")) <= 1
    /\ \A i \in FramePos("[DONE]") : i = Len(frames)
    /\ pc = "closed" <=> FramePos("[DONE]") # {}
    /\ pc # "closed" => ENABLED Next

\* C9 witness: a stream closed after a task of the plan failed.
C9_Witness ==
    /\ pc = "closed"
    /\ result = "TaskExecutionFailed"
    /\ frames[Len(frames)] = DoneFrame

\* C10: after a step_error frame no step_complete or step_error frame is
\* sent, and step_complete is sent only for a step whose run succeeded.
C10_NoOutcomeAfterStepError ==
    /\ \A i \in FramePos("step_error") : \A j \in DOMAIN frames :
           j > i => frames[j].type \notin {"step_complete", "step_error"}
    /\ \A j \in FramePos("step_complete") : taskState[frames[j].step] = "succeeded"

\* C10 witness: a closed stream with a step_error for one step while a later
\* step has no output either.
C10_Witness ==
    /\ pc = "closed"
    /\ \E i \in FramePos("step_error") :
           \E s \in StepIds(plan) : s > frames[i].step /\ s \notin context

C12_TimeoutReported ==
    result = "Timeout" =>
        /\ error = [NoError EXCEPT !.rule = "timeout", !.secs = plan_timeout_secs]
        /\ results = <<>>
        /\ FramePos("step_complete") = {}
        /\ pc = "closed" =>
              /\ Len(frames) >= 2
              /\ frames[Len(frames) - 1].type = "execution_error"
              /\ frames[Len(frames)] = DoneFrame

\* C12 witness: the timeout fired while a task was running after another
\* had already written its output, and the stream has ended.
C12_Witness ==
    /\ result = "Timeout"
    /\ pc = "closed"
    /\ \E t \in DOMAIN taskState : taskState[t] = "cancelled"
    /\ context # {}

\* C14: the planner calls the LLM at most twice for one request; a second
\* call is made only after a first call that failed, and no call follows a
\* success or a failed retry.
C14_AtMostOneRetry ==
    [][/\ plannerCalls' <= 2
       /\ plannerCalls' # plannerCalls =>
             /\ plannerCalls' = plannerCalls + 1
             /\ plan = <<>>
             /\ plannerCalls <= 1
             /\ plannerCalls = 1 => plannerError # NoPlannerError]_vars

\* C14 witness: the first call failed, the retry succeeded and the plan was
\* executed to the end of the stream.
C14_Witness ==
    /\ plannerCalls = 2
    /\ plan # <<>>
    /\ pc = "closed"

\* C15: when both planner attempts fail, the error returned has the kind
\* PlanningFailed and carries the categorized cause of the failure.
C15_PlanningFailedKind ==
    (plannerCalls = 2 /\ plan = <<>> /\ pc \in {"emit_done", "closed"}) =>
        /\ plannerError.kind = "PlanningFailed"
        /\ plannerError.cause \in PlannerFailureCauses

\* The lifecycle state of step s: a step is Ready from the moment the session
\* is positioned on it until its Task::run begins.
TaskPhase(ts, cur, s) ==
    IF s \notin DOMAIN ts THEN "pending"
    ELSE IF ts[s] = "pending" /\ cur = s THEN "ready"
    ELSE ts[s]

\* The moves the lifecycle allows.
AllowedMoves ==
    {<<"pending", "ready">>, <<"ready", "running">>,
     <<"running", "succeeded">>, <<"running", "failed">>,
     <<"pending", "cancelled">>, <<"ready", "cancelled">>,
     <<"running", "cancelled">>}

\* Every step's state stays or makes an allowed move.
LifecycleMoves ==
    \A s \in DOMAIN taskState' :
        \/ TaskPhase(taskState', current_task_id', s)
             = TaskPhase(taskState, current_task_id, s)
        \/ <<TaskPhase(taskState, current_task_id, s),
             TaskPhase(taskState', current_task_id', s)>> \in AllowedMoves

\* A step that becomes Ready has all its declared dependencies Succeeded.
ReadyAfterDependencies ==
    \A s \in DOMAIN taskState' :
        (/\ TaskPhase(taskState', current_task_id', s) = "ready"
         /\ TaskPhase(taskState, current_task_id, s) # "ready")
            => \A d \in plan'[s].dependencies : taskState'[d] = "succeeded"

\* C30: each task moves only along Pending -> Ready -> Running ->
\* (Succeeded | Failed), or to Cancelled before it has finished; it becomes
\* Ready only when all its declared dependencies have Succeeded; Succeeded,
\* Failed and Cancelled are never left, so no task enters Running twice.
C30_TaskLifecycle == [][LifecycleMoves /\ ReadyAfterDependencies]_vars

\* C21: on a stream whose planning succeeded the first event is
\* plan_generated, followed by exactly one step_start per step in
\* declaration order with step_number 1..n, all of them before any
\* step_complete, step_error or terminal event.
C21_PlanGeneratedThenStepStarts ==
    FramePos("plan_generated") # {} =>
        /\ frames[1].type = "plan_generated"
        /\ FramePos("plan_generated") = {1}
        /\ \A i \in FramePos("step_start") :
               i \in 2..(Len(plan) + 1) /\ frames[i].step = i - 1
        /\ pc \notin {"planning", "step_start"} =>
               \A k \in StepIds(plan) : frames[k + 1] = Frame("step_start", k)

\* C22: step_complete and step_error events are sent in the order in which
\* the steps finished, not in declaration order: of two step_complete
\* frames, the earlier one is for the step that wrote its output first.
C22_CompletionOrder ==
    \A i, j \in FramePos("step_complete") :
        i < j =>
            \E a, b \in DOMAIN setCalls :
                /\ a < b
                /\ setCalls[a][1] = frames[i].step
                /\ setCalls[b][1] = frames[j].step

\* C23: when planning fails after its retry, the stream carries an
\* execution_error whose message starts with "Planning failed: ",
\* immediately followed by [DONE], and no plan_generated, step_start,
\* step_complete or step_error frame.
C23_PlanningFailedStream ==
    (plannerCalls = 2 /\ plan = <<>> /\ pc \in {"emit_done", "closed"}) =>
        /\ \E i \in DOMAIN frames :
              /\ frames[i] = ExecutionErrorFrame("Planning failed: ")
              /\ FramePos("execution_error") = {i}
              /\ i = IF pc = "closed" THEN Len(frames) - 1 ELSE Len(frames)
        /\ pc = "closed" => frames[Len(frames)] = DoneFrame
        /\ \A i \in DOMAIN frames :
              frames[i].type \notin {"plan_generated", "step_start",
                                     "step_complete", "step_error"}

\* C23 witness: both planner calls failed, the second on Plan::validate, and
\* the stream is closed.
C23_Witness ==
    /\ plannerCalls = 2
    /\ plan = <<>>
    /\ plannerError.cause = "validation"
    /\ pc = "closed"

\* ------------------------------------------------ claims of SpecStream

NothingRan ==
    /\ startLog = <<>>
    /\ setCalls = <<>>
    /\ context = {}
    /\ fileWrites = {}

\* C13: every plan invariant is checked before execution begins: when the
\* validator or the graph construction rejects the plan (a rule of
\* validate, or a step for which no task can be built), execute_plan has
\* returned InvalidPlan with the rule broken and nothing of the plan has run.
C13_RejectedBeforeAnyTask ==
    /\ (/\ pc = "execute"
        /\ \/ ~validate(plan)
           \/ \E s \in StepIds(plan) : build_step_error(plan[s]) # "none")
          => /\ xstate = "returned"
             /\ result = "InvalidPlan"
             /\ error.rule # "none"
    /\ result = "InvalidPlan" => NothingRan

\* C13 witness: a plan of two steps which the validator accepts was rejected
\* by the graph construction.
C13_Witness ==
    /\ pc = "execute"
    /\ result = "InvalidPlan"
    /\ validate(plan)
    /\ Len(plan) >= 2
    /\ NothingRan

\* A filename with "..", a leading '/', NUL or another control character.
UnsafeFilename(f) ==
    \/ contains_dotdot(f)
    \/ starts_with_slash(f)
    \/ \E i \in DOMAIN f : f[i] \in {"NUL", "LF"}

UnsafeSteps ==
    {s \in StepIds(plan) :
        /\ plan[s].task = "create_file"
        /\ \E f \in plan[s].filename : UnsafeFilename(f)}

\* C18: a create_file step whose filename has "..", a leading '/', NUL or a
\* control character is rejected when the graph is built and again when the
\* task is run; no file is written for it and it sets no output key.
C18_UnsafeFilenameRejected ==
    \A s \in UnsafeSteps :
        /\ pc = "execute" => result = "InvalidPlan" /\ NothingRan
        /\ (pc = "task_done" /\ s = Len(plan)) =>
              /\ result = "TaskExecutionFailed"
              /\ taskState[s] = "failed"
        /\ \A w \in fileWrites : w.step # s
        /\ \A i \in DOMAIN setCalls : setCalls[i][1] # s

\* C18 witness: a task whose filename is unsafe only by a control character
\* was run alone, with the output it reads present, and failed.
C18_Witness ==
    /\ pc = "task_done"
    /\ Len(plan) \in UnsafeSteps
    /\ plan[Len(plan)].filename = Some(<<"a", "LF">>)
    /\ plan[Len(plan)].content_from \in context
    /\ result = "TaskExecutionFailed"

\* C19: a plan in which a step's content_from names a step that is not among
\* its dependencies is rejected by the validator and, independently, by a
\* check of the graph builder's own.
C19_ContentFromCheckedTwice ==
    (/\ pc = "execute"
     /\ \E s \in StepIds(plan) :
            /\ plan[s].content_from # 0
            /\ plan[s].content_from \notin plan[s].dependencies)
        => /\ ~validate(plan)
           /\ ~build_own_checks(plan)

C24_OneResultPerStep ==
    (pc = "execute" /\ result = "Ok") =>
        /\ Len(results) = Len(plan)
        /\ \A i \in StepIds(plan) :
              /\ results[i].step_id = i
              /\ results[i].step_number = i
              /\ results[i].success = (i \in context)
              /\ i \in context =>
                    /\ results[i].output = Some(i)
                    /\ results[i].error = None
              /\ i \notin context =>
                    /\ results[i].output = None
                    /\ results[i].error =
                          Some([text |-> "did not produce output",
                                step_number |-> i, step_id |-> i])

\* C24 witness: a plan of two steps of which the second finished first; the
\* results are in declaration order and both carry their outputs.
C24_Witness ==
    /\ pc = "execute"
    /\ result = "Ok"
    /\ setCalls = <<<<2, 2>>, <<1, 1>>>>
    /\ results[1].output = Some(1)
    /\ results[2].output = Some(2)

\* The output keys set since the execution, or the single task run, began.
KeysSetInRun ==
    IF pc = "task_done" THEN context \ startLog[1].context ELSE context

\* C31: a task's "<step_id>.output" key is set only after its side effect
\* has completed successfully: a key set in the run belongs to a task that
\* succeeded (a create_file whose file is completely written), and a task
\* that failed or was cancelled, also one that left its file partly
\* written, has no key set.
C31_OutputKeyOnlyAfterSuccess ==
    \A t \in DOMAIN taskState :
        /\ t \in KeysSetInRun =>
             /\ taskState[t] = "succeeded"
             /\ plan[t].task = "create_file" =>
                  \E w \in fileWrites : w.step = t /\ w.complete
        /\ taskState[t] \in {"failed", "cancelled"} =>
             /\ t \notin KeysSetInRun
             /\ \A i \in DOMAIN setCalls : setCalls[i][1] # t

\* C31 witness: a create_file task was cancelled by the timeout after it had
\* written part of its file, and its key is not set.
C31_Witness ==
    /\ result = "Timeout"
    /\ \E t \in DOMAIN taskState :
           /\ taskState[t] = "cancelled"
           /\ plan[t].task = "create_file"
           /\ \E w \in fileWrites : w.step = t /\ ~w.complete
           /\ t \notin context

Outstanding(s) ==
    {c \in Callers : csess[c] = s /\
                     cpc[c] \in {"check_alive", "lock_stdout", "read_line"}}

\* C5: on one bridge session at most one request/response exchange is
\* outstanding at any time: a second request line is not written until the
\* first caller has read its response line or failed.
C5_OneOutstandingExchange ==
    \A s \in SessionIds : Cardinality(Outstanding(s)) <= 1

\* C6: concurrent get_or_create_session calls for one conversation_id never
\* leave two live sidecars spawned for that conversation, and never hand
\* different live sessions to different callers.
C6_OneLiveSessionPerConversation ==
    /\ \A s1, s2 \in SessionIds :
          (is_running(s1) /\ is_running(s2) /\ sconv[s1] = sconv[s2])
              => s1 = s2
    /\ \A c1, c2 \in Callers :
          (/\ cpc[c1] \notin {"idle", "lookup", "remove_dead", "create"}
           /\ cpc[c2] \notin {"idle", "lookup", "remove_dead", "create"}
           /\ cconv[c1] = cconv[c2]
           /\ is_running(csess[c1]) /\ is_running(csess[c2]))
              => csess[c1] = csess[c2]

\* The session stored for the conversation of caller c's call (0: none).
Stored(c) == sessions[cconv[c]]

\* C16: when the session stored for a conversation_id has a dead process,
\* the next get_or_create_session for that id does not return it: it removes
\* the entry, constructs a session never spawned before whose process is
\* live, stores it and returns it. No session is ever handed to a caller
\* with a dead process, so a death fails only calls that held the session
\* before it died.
C16_DeadSessionReplaced ==
    [][\A c \in Callers :
          /\ (csess'[c] # csess[c] /\ csess'[c] # 0)
                => proc'[csess'[c]] = "running"
          /\ (/\ cpc[c] = "lookup" /\ cpc'[c] # "lookup"
              /\ Stored(c) # 0 /\ proc[Stored(c)] # "running")
                => cpc'[c] = "remove_dead" /\ csess'[c] = 0
          /\ (cpc[c] = "remove_dead" /\ cpc'[c] # "remove_dead")
                => sessions'[cconv[c]] = 0 /\ cpc'[c] = "create"
          /\ (cpc[c] = "create" /\ cpc'[c] = "insert")
                => proc[csess'[c]] = "none"
          /\ (cpc[c] = "insert" /\ cpc'[c] # "insert")
                => /\ sessions'[cconv[c]] = csess[c]
                   /\ csess'[c] = csess[c]
                   /\ cpc'[c] = "send_write"]_vars

\* C16 witness: one caller made two calls; the sidecar of the first has
\* exited, and the second call has replaced it in the table with a second,
\* live session which it is about to write to.
C16_Witness ==
    \E c \in Callers :
        /\ creq[c] = 2
        /\ \A d \in Callers \ {c} : creq[d] = 0
        /\ spawned = 2
        /\ proc[1] = "exited"
        /\ proc[2] = "running"
        /\ Stored(c) = 2
        /\ csess[c] = 2
        /\ cpc[c] = "send_write"

\* C17: get_or_create_session returns the session already stored for the id,
\* spawning no subprocess and leaving the table as it is, whenever a session
\* is stored and its process is live.
C17_LiveSessionReused ==
    [][\A c \in Callers :
          (/\ cpc[c] = "lookup" /\ cpc'[c] # "lookup"
           /\ Stored(c) # 0 /\ proc[Stored(c)] = "running")
             => /\ csess'[c] = Stored(c)
                /\ cpc'[c] = "send_write"
                /\ spawned' = spawned
                /\ sessions' = sessions
                /\ proc' = proc]_vars

\* C17 witness: a second call was handed the live session the first call
\* had spawned and stored; no other session was spawned.
C17_Witness ==
    \E c \in Callers :
        /\ creq[c] = 2
        /\ spawned = 1
        /\ proc[1] = "running"
        /\ Stored(c) = 1
        /\ csess[c] = 1
        /\ cpc[c] = "send_write"

\* C28: get_or_create_session removes or replaces a table entry only if that
\* entry's process is dead at that moment: a live session another caller
\* inserted for the conversation_id after the liveness check is never removed
\* or overwritten.
C28_LiveEntryNeverReplaced ==
    [][\A k \in ConversationIds :
          (sessions[k] # 0 /\ sessions'[k] # sessions[k])
              => proc[sessions[k]] # "running"]_vars

\* C29: each send_message call that returns a response has read one line of
\* the sidecar's stdout, and that line is the reply to the request line that
\* same call wrote, also when calls on the session overlap or an earlier
\* call timed out before its reply arrived.
C29_ReplyAnswersOwnRequest ==
    \A c \in Callers : creply[c] # 0 => creply[c] = creq[c]

\* --------------------------------------------- claims of SpecShutdown

\* C25: when kill_all_processes returns the table is empty and kill has been
\* invoked, and has returned, exactly once on every session that was in the
\* table when it took the lock, also after some kill failed; at no time is
\* more than one of its kills in progress.
C25_KillAllEmptiesTable ==
    [][/\ Cardinality({i \in DOMAIN killLog' :
                          killLog'[i].result = "pending"}) <= 1
       /\ (kaPc # "returned" /\ kaPc' = "returned") =>
            /\ \A k \in DOMAIN sessions' : sessions'[k] = 0
            /\ \A k \in DOMAIN kaTable : kaTable[k] # 0 =>
                 Cardinality({i \in DOMAIN killLog' :
                                 /\ killLog'[i].session = kaTable[k]
                                 /\ killLog'[i].result # "pending"}) = 1]_vars

\* kill_all_processes has returned after killing two sessions, the first
\* kill having failed.
C25_Witness ==
    /\ kaPc = "returned"
    /\ Len(killLog) = 2
    /\ killLog[1].result = "err"
    /\ killLog[2].result = "ok"

\* --------------------------------------------- claims of SpecEndpoints

\* The request carries a goal longer than max_goal_length, or a config
\* update with a zero integer field or an empty gemini_model.
BadInput ==
    \/ /\ httpRequest.route = "orchestrate"
       /\ httpRequest.goal_len > DefaultMaxGoalLength
    \/ /\ httpRequest.route = "config"
       /\ \/ Some(0) \in {httpRequest.update.max_parallel_tasks,
                          httpRequest.update.max_goal_length,
                          httpRequest.update.plan_timeout_secs}
          \/ httpRequest.update.gemini_model = Some("")

\* C26: bad input to an orchestrator endpoint is rejected with the error
\* kind InvalidInput, reported as HTTP 400, before any planning.
C26_BadInputIsInvalidInput400 ==
    (BadInput /\ httpResponse # NoResponse) =>
        /\ httpResponse.kind = "InvalidInput"
        /\ httpResponse.status = 400
        /\ plannerCalls = 0

\* The config a successful update of the default config must return.
ExpectedConfig(u) ==
    [f \in DOMAIN DefaultConfig |->
        IF u[f] # None THEN Unwrap(u[f]) ELSE DefaultConfig[f]]

\* C27: a config update is rejected exactly when a supplied integer field is
\* 0 or the supplied gemini_model is empty; otherwise it succeeds, every
\* supplied field has the supplied value and the others keep their previous
\* values.
C27_ConfigUpdateValidated ==
    (httpRequest.route = "config" /\ httpResponse # NoResponse) =>
        /\ httpResponse.status # 200 <=> BadInput
        /\ httpResponse.status = 200 =>
             httpResponse.config = Some(ExpectedConfig(httpRequest.update))

\* An accepted update that supplies two fields and leaves two out.
C27_Witness ==
    /\ httpRequest.route = "config"
    /\ httpResponse.status = 200
    /\ httpRequest.update.max_goal_length = Some(1)
    /\ httpRequest.update.gemini_model = Some("gemini-2.5-pro")
    /\ httpRequest.update.max_parallel_tasks = None
    /\ httpRequest.update.plan_timeout_secs = None
    /\ httpResponse.config = Some([DefaultConfig EXCEPT
                                      !.max_goal_length = 1,
                                      !.gemini_model = "gemini-2.5-pro"])

\* ------------------------------------------------ claims of SpecLocks

\* The callers holding the lock that caller c's next step waits for.
BlockedBy(c) ==
    CASE cpc[c] = "goc_read" -> {tableLock.writer} \ {0}
      [] cpc[c] \in {"goc_write", "goc_insert", "kp_write", "ka_write"} ->
             ({tableLock.writer} \ {0}) \cup tableLock.readers
      [] cpc[c] = "goc_is_running" ->
             {mutex[sessions[cconv[c]]]["child"]} \ {0}
      [] cpc[c] = "send_stdin" -> {mutex[csess[c]]["stdin"]} \ {0}
      [] cpc[c] \in {"send_child", "send_eof_child", "kill_child",
                     "ir_child"} -> {mutex[csess[c]]["child"]} \ {0}
      [] cpc[c] = "send_stderr" -> {mutex[csess[c]]["stderr"]} \ {0}
      [] cpc[c] = "send_stdout" -> {mutex[csess[c]]["stdout"]} \ {0}
      [] OTHER -> {}

\* The callers reached from c by n steps of "waits for a lock held by".
RECURSIVE WaitChain(_, _)
WaitChain(c, n) ==
    IF n = 0 THEN {c}
    ELSE UNION {BlockedBy(d) : d \in WaitChain(c, n - 1)}

\* No caller waits, directly or through others, for a lock it holds itself.
NoWaitCycle ==
    \A c \in Callers : \A n \in 1..NumCallers : c \notin WaitChain(c, n)

C38_KillIdempotent ==
    [][\A s \in SessionIds :
         /\ ~child[s] /\ proc[s] # "none" => ~child'[s]
         /\ signalled'[s] <= 1
         /\ \A c \in Callers :
              (csess[c] = s /\ ~child[s] /\ mutex[s]["child"] # c) =>
                 /\ (cpc[c] = "kill_child" /\ cpc'[c] # "kill_child") =>
                       /\ cres'[c] = "ok"
                       /\ signalled'[s] = signalled[s]
                 /\ (cpc[c] = "ir_child" /\ cpc'[c] = "idle") =>
                       cres'[c] = "false"
         /\ \A c \in Callers :
              (/\ cpc[c] = "goc_is_running"
               /\ sessions[cconv[c]] = s
               /\ ~child[s]
               /\ cpc'[c] # "goc_is_running") => cpc'[c] = "goc_write"]_vars

\* C38 witness: a kill took the handle of a running session and failed; a
\* second kill on the session has returned Ok, child.kill() was called
\* once and the process still runs.
C38_Witness ==
    \E s \in SessionIds :
        /\ ~child[s]
        /\ proc[s] = "running"
        /\ signalled[s] = 1
        /\ \E c, d \in Callers :
              /\ c # d
              /\ cop[d] = "kill" /\ cpc[d] = "idle" /\ cres[d] = "err"
              /\ cop[c] = "kill" /\ cpc[c] = "idle" /\ cres[c] = "ok"

\* ------------------------------------------- claims of SpecKillProcess

\* C39: kill_process(id) removes the table entry of id whether or not
\* killing its process succeeds, leaves every other conversation's entry
\* untouched, and with no entry for id returns Ok and leaves the table as
\* it is.
C39_KillProcessRemovesEntry ==
    [][\A c \in Callers :
         (cop[c] = "kill_process" /\ cpc[c] # "idle" /\ cpc'[c] # cpc[c]) =>
            /\ \A k \in DOMAIN sessions :
                  k # cconv[c] => sessions'[k] = sessions[k]
            /\ sessions'[cconv[c]] = 0
            /\ (cpc[c] = "kp_write" /\ sessions[cconv[c]] = 0) =>
                  /\ sessions' = sessions
                  /\ cpc'[c] = "idle"
                  /\ cres'[c] = "ok"]_vars

\* C39 witness: kill_process has returned the error of a failed kill; the
\* entry is gone and another conversation still has its session.
C39_Witness ==
    \E c \in Callers :
        /\ cop[c] = "kill_process"
        /\ cpc[c] = "idle"
        /\ cres[c] = "err"
        /\ sessions[cconv[c]] = 0
        /\ \E k \in DOMAIN sessions : sessions[k] # 0

\* ---------------------------------------------- claims of SpecAppState

\* C34: each plan execution uses a context of its own, created at its
\* start: concurrent executions, even of the same plan, never read an entry
\* ("<step_id>.output" or working_dir) another execution set, and no entry
\* of an execution's context was set by another execution.
C34_ContextPerExecution ==
    \A e \in Executions :
        /\ \A x \in runs[e].reads : x.by = e
        /\ runs[e].pc # "idle" =>
              /\ \A x \in contexts[runs[e].ctx] : x.by = e
              /\ \A f \in Executions \ {e} :
                    runs[f].pc # "idle" => runs[f].ctx # runs[e].ctx

\* C34 witness: two executions of the same plan are both between their
\* first and second step, and each has read the working_dir entry of its
\* context.
C34_Witness ==
    \E e, f \in Executions :
        /\ e # f
        /\ runs[e].plan = runs[f].plan
        /\ runs[e].pc = "ready" /\ runs[e].next = 2 /\ runs[e].reads # {}
        /\ runs[f].pc = "ready" /\ runs[f].next = 2 /\ runs[f].reads # {}

\* C35: every create_file task of an execution writes under the working
\* directory established when the execution started, whatever is set or
\* cleared while it runs.
C35_WorkingDirFixedAtStart ==
    \A e \in Executions :
        \A w \in runs[e].writes : w.dir = runs[e].startWd

\* C40: concurrent calls of find_or_create_gemini_agent on a registry with
\* no Gemini agent add at most one Gemini agent, and every caller receives
\* that agent.
C40_OneGeminiAgent ==
    /\ Cardinality(GeminiAgents) <= 1
    /\ Cardinality(UNION {runs[e].received : e \in Executions}) <= 1

====
